---- MODULE Spec2Model ----
(***************************************************************************)
(* A model of the grib board engine.                                       *)
(*                                                                         *)
(* The repository holds two revisions of the board/occupant code:          *)
(*   - the "core" package: grib/core/board.py (Board) together with        *)
(*     grib/core/board_object.py, shape.py and types.py (occupants with a  *)
(*     Shape and a stored position).  Specification: Spec.                 *)
(*   - the single-file revision grib/grib.py (single-cell occupants whose  *)
(*     position is found by scanning the board).  Specification: SpecGrib; *)
(*     SpecPush and SpecLine run its push chain on one-row levels.         *)
(* SpecMove adds the relative move of the core package, SpecLoad its       *)
(* load_state and save_state, SpecResize the width and height setters,     *)
(* clear and clear_area, SpecShow printing and export.  SpecPath and       *)
(* SpecPathLive run Grid.pathfind of core/grid.py pass by pass, SpecDir    *)
(* the Direction enum of both revisions and its addition to coordinates.   *)
(* SpecGetLine walks Board.get_line step by step, SpecPathDiag runs        *)
(* pathfind with diagonal=True, SpecWall moves a Player next to a Wall in  *)
(* the core package and SpecGame moves GameObjects of core/gameobject.py   *)
(* on a Grid.                                                              *)
(* Both are modelled operation by operation; Python's list indexing        *)
(* (negative indices wrap, anything else raises IndexError) and the        *)
(* exceptions an operation raises midway are part of the model.            *)
(***************************************************************************)
EXTENDS Integers, Sequences, FiniteSets, TLC

VARIABLES board, position, owner, last, pre, text, saved, pf, returned

vars == <<board, position, owner, last, pre, text, saved, pf, returned>>

\* The text last handed to load_state, and the value save_state returned for
\* the board loaded from it (empty while it has not been called).
\* pf is the state of a running Grid.pathfind call, returned the value the
\* last call returned when it is a coordinate or a printed board.
io == <<text, saved, pf, returned>>
NoText == <<>>
NoValue == <<>>
NoSearch ==
  [pc |-> "idle", start |-> <<>>, goal |-> <<>>, mode |-> "none",
   diagonal |-> FALSE,
   priority_queue |-> {}, came_from |-> <<>>, g_score |-> <<>>,
   counter |-> 0, popped |-> <<>>, frontier |-> {},
   result |-> [found |-> FALSE, path |-> <<>>, total_cost |-> 0]]

(***************************************************************************)
(* Bounds of the model: the board of the core revision and the board of    *)
(* the grib.py revision.                                                   *)
(***************************************************************************)
Width == 4
Height == 3
GribWidth == 4
GribHeight == 2

(***************************************************************************)
(* Occupants.  Every Empty() instance is represented by the one value      *)
(* "Empty": no operation distinguishes two Empty instances.                *)
(***************************************************************************)
EmptyObj == "Empty"
SymbolObj == "S"

\* _can_push_chain gives up beyond this chain_length.
MaxChain == 50

\* The Box instances: "B1", "B2", ... (enough of them for a line that
\* exceeds MaxChain).
BoxId(i) == "B" \o ToString(i)
Boxes == {BoxId(i) : i \in 1..(MaxChain + 2)}

Kind(o) ==
  CASE o = "Empty" -> "Empty"
    [] o = "P" -> "Player"
    [] o \in {"B1", "B2"} -> "Box"
    [] o = "W1" -> "Wall"
    [] o = "S" -> "Symbol"
    [] o = "G" -> "BigBox"
    [] o \in Boxes -> "Box"
    [] OTHER -> "None"

movable(o) == Kind(o) \in {"Player", "Box", "BigBox"}
replaceable(o) == Kind(o) = "Empty"
pushable(o) == Kind(o) = "Box"
isEmpty(o) == Kind(o) = "Empty"

BigBoxSide == 3
ShapeWidth(o) == IF Kind(o) = "BigBox" THEN BigBoxSide ELSE 1
ShapeHeight(o) == IF Kind(o) = "BigBox" THEN BigBoxSide ELSE 1
is_single_celled(o) == ShapeWidth(o) = 1 /\ ShapeHeight(o) = 1

Policies == {"SWAP", "REPLACE", "FAIL", "PUSH"}

(***************************************************************************)
(* Coordinates are <<x, y>>.  Adding a Direction is componentwise.         *)
(***************************************************************************)
X(pos) == pos[1]
Y(pos) == pos[2]
Add(pos, d) == <<pos[1] + d[1], pos[2] + d[2]>>
Unplaced == <<-1, -1>>

\* The Direction members of grib/core/types.py, by value (aliases collapse).
CoreDirections ==
  {<<0, -11>>, <<0, 1>>, <<1, 0>>, <<-1, 0>>, <<0, -1>>,
   <<1, -1>>, <<-1, -1>>, <<1, 1>>, <<-1, 1>>}

\* Shape.get_occupied_positions: the footprint as a list, rows first.
get_occupied_positions(o, anchor) ==
  [i \in 1..(ShapeWidth(o) * ShapeHeight(o)) |->
     <<X(anchor) + ((i - 1) % ShapeWidth(o)),
       Y(anchor) + ((i - 1) \div ShapeWidth(o))>>]

Footprint(o, anchor) ==
  {get_occupied_positions(o, anchor)[i] :
     i \in 1..(ShapeWidth(o) * ShapeHeight(o))}

(***************************************************************************)
(* Python list indexing: the 1-based index of element i of a list of       *)
(* length n, or 0 when list[i] raises IndexError.                          *)
(***************************************************************************)
PyIndex(n, i) ==
  IF i >= 0 /\ i < n THEN i + 1
  ELSE IF i < 0 /\ -i <= n THEN n + i + 1
  ELSE 0

IndexError == "IndexError"

\* Board.width / Board.height properties.
width(b) == Len(b[1])
height(b) == Len(b)

\* Board.in_bounds
in_bounds(b, pos) ==
  /\ ~(X(pos) < 0 \/ X(pos) >= width(b))
  /\ ~(Y(pos) < 0 \/ Y(pos) >= height(b))

\* Board.__getitem__: the occupant, or IndexError.
getitem(b, pos) ==
  LET r == PyIndex(Len(b), Y(pos)) IN
  IF r = 0 THEN IndexError
  ELSE LET c == PyIndex(Len(b[r]), X(pos)) IN
       IF c = 0 THEN IndexError ELSE b[r][c]

\* __setitem__ without its guard against multi-celled values.
setitem_unguarded(b, pos, v) ==
  IF PyIndex(Len(b), Y(pos)) = 0 THEN [board |-> b, exc |-> IndexError]
  ELSE LET r == PyIndex(Len(b), X(pos)) IN
       IF r = 0 THEN [board |-> b, exc |-> IndexError]
       ELSE LET c == PyIndex(Len(b[r]), Y(pos)) IN
            IF c = 0 THEN [board |-> b, exc |-> IndexError]
            ELSE [board |-> [b EXCEPT ![r][c] = v], exc |-> "ok"]

\* Board.__setitem__ of core/board.py: the written board and how the call ended
\* ("ok", "rejected" for a multi-celled value, or IndexError).  The final
\* assignment indexes the matrix as board[pos[0]][pos[1]].
setitem(b, pos, v) ==
  IF ~is_single_celled(v) THEN [board |-> b, exc |-> "rejected"]
  ELSE IF PyIndex(Len(b), Y(pos)) = 0 THEN [board |-> b, exc |-> IndexError]
  ELSE LET r == PyIndex(Len(b), X(pos)) IN
       IF r = 0 THEN [board |-> b, exc |-> IndexError]
       ELSE LET c == PyIndex(Len(b[r]), Y(pos)) IN
            IF c = 0 THEN [board |-> b, exc |-> IndexError]
            ELSE [board |-> [b EXCEPT ![r][c] = v], exc |-> "ok"]

\* A loop "for p in positions: self[p] = v": stops at the first IndexError.
RECURSIVE WriteAll(_, _, _)
WriteAll(b, ps, v) ==
  IF ps = <<>> THEN [board |-> b, exc |-> "ok"]
  ELSE LET w == setitem(b, Head(ps), v) IN
       IF w.exc = IndexError THEN w ELSE WriteAll(w.board, Tail(ps), v)

\* Board.__init__: height rows of width Empty cells.
NewBoard(w, h) == [r \in 1..h |-> [c \in 1..w |-> EmptyObj]]

(***************************************************************************)
(* Board.place_object of core/board.py.                                    *)
(***************************************************************************)
place_object(b, posn, own, o, pos) ==
  LET ps == get_occupied_positions(o, pos)
      same == [board |-> b, position |-> posn, owner |-> own]
  IN
  IF \E i \in DOMAIN ps : ~in_bounds(b, ps[i])
  THEN same @@ [ret |-> "None"]
  ELSE IF \E i \in DOMAIN ps : ~isEmpty(getitem(b, ps[i]))
  THEN same @@ [ret |-> "False"]
  ELSE LET w == WriteAll(b, ps, o) IN
       IF w.exc = IndexError
       THEN [board |-> w.board, position |-> posn, owner |-> own,
             ret |-> IndexError]
       ELSE [board |-> w.board,
             position |-> [posn EXCEPT ![o] = pos],
             owner |-> [own EXCEPT ![o] = TRUE],
             ret |-> "None"]

(***************************************************************************)
(* State machine of the core revision (Spec): a board built by Board(w, h) *)
(* on which a caller places occupants, assigns cells and reads cells.      *)
(* A call is one step: last records the call and how it ended, pre the     *)
(* state it was made in; Return hands control back to the caller.          *)
(***************************************************************************)
AllObjs == {"P", "B1", "B2", "W1", "G"}
CoreObjs == {"P", "G"}
NoArg == <<0, 0>>
Snapshot(b, posn, own) == [board |-> b, position |-> posn, owner |-> own]
Call(op, o, pos, pol, ret) ==
  [op |-> op, obj |-> o, pos |-> pos, pol |-> pol, ret |-> ret]
Idle == Call("idle", EmptyObj, NoArg, "FAIL", "None")

Init ==
  /\ board = NewBoard(Width, Height)
  /\ position = [o \in AllObjs |-> Unplaced]
  /\ owner = [o \in AllObjs |-> FALSE]
  /\ last = Idle
  /\ pre = Snapshot(board, position, owner)
  /\ text = NoText
  /\ saved = NoText
  /\ pf = NoSearch
  /\ returned = NoValue

\* Positions a caller passes: every cell and a ring of cells outside the board.
Positions == {<<x, y>> : x \in -1..Width, y \in -1..Height}
Cells == {<<x, y>> : x \in 0..(Width - 1), y \in 0..(Height - 1)}

\* The cells of b that reference o, as <<x, y>> in the convention of getitem.
OnBoard(b, o) ==
  UNION {{<<c - 1, r - 1>> : c \in {k \in 1..Len(b[r]) : b[r][k] = o}} :
           r \in 1..Len(b)}

\* b.place_object(o, pos), each occupant placed by the caller once.
Place(o, pos) ==
  /\ last = Idle
  /\ ~owner[o]
  /\ LET r == place_object(board, position, owner, o, pos) IN
     /\ board' = r.board
     /\ position' = r.position
     /\ owner' = r.owner
     /\ last' = Call("place", o, pos, "FAIL", r.ret)
  /\ pre' = Snapshot(board, position, owner)
  /\ UNCHANGED io

\* b[pos] = v for a string (which becomes a Symbol) or a multi-celled occupant;
\* the caller writes one symbol.
SetCell(pos, v) ==
  /\ last = Idle
  /\ v = SymbolObj => OnBoard(board, SymbolObj) = {}
  /\ LET w == setitem(board, pos, v) IN
     /\ board' = w.board
     /\ last' = Call("set", v, pos, "FAIL", w.exc)
  /\ pre' = Snapshot(board, position, owner)
  /\ UNCHANGED io
  /\ UNCHANGED <<position, owner>>

\* b[pos]
GetCell(pos) ==
  /\ last = Idle
  /\ last' = Call("get", EmptyObj, pos, "FAIL", getitem(board, pos))
  /\ pre' = Snapshot(board, position, owner)
  /\ UNCHANGED io
  /\ UNCHANGED <<board, position, owner>>

\* The call returns (or its exception is caught) and the caller goes on.
Return ==
  /\ last # Idle
  /\ last' = Idle
  /\ pre' = Snapshot(board, position, owner)
  /\ UNCHANGED io
  /\ UNCHANGED <<board, position, owner>>

Next ==
  \/ \E o \in CoreObjs, pos \in Positions : Place(o, pos)
  \/ \E pos \in Positions, v \in {SymbolObj, "G"} : SetCell(pos, v)
  \/ \E pos \in Positions : GetCell(pos)
  \/ Return

Spec == Init /\ [][Next]_vars

(***************************************************************************)
(* Moves of the core revision (SpecMove): BoardObject.can_move_to and      *)
(* BoardObject.move of core/board_object.py on occupants the caller has    *)
(* placed.  position is the stored field; every write goes through         *)
(* Board.__setitem__.                                                      *)
(***************************************************************************)
NameError == "NameError"

\* BoardObject.can_move_to of the core revision.
core_can_move_to(b, own, o, new_pos, existing) ==
  LET new_positions == get_occupied_positions(o, new_pos) IN
  IF ~own[o] \/ ~movable(o) THEN FALSE
  ELSE IF \E i \in DOMAIN new_positions : ~in_bounds(b, new_positions[i])
  THEN FALSE
  ELSE \A i \in DOMAIN new_positions :
         LET target == getitem(b, new_positions[i]) IN
         \/ target = o
         \/ isEmpty(target)
         \/ CASE existing = "FAIL" -> FALSE
              [] existing = "SWAP" -> movable(target)
              [] existing = "REPLACE" -> replaceable(target)
              [] OTHER -> TRUE

\* The loops "for pos in self.get_occupied_positions(): self.board[
\* self.position + pos] = v" of move: position and pos are both tuples, so
\* their sum is the 4-tuple whose first two items are the position, and every
\* pass writes the cell the position names.
RECURSIVE WriteAnchor(_, _, _, _)
WriteAnchor(b, anchor, n, v) ==
  IF n = 0 THEN [board |-> b, exc |-> "ok"]
  ELSE LET w == setitem(b, anchor, v) IN
       IF w.exc = IndexError THEN w ELSE WriteAnchor(w.board, anchor, n - 1, v)

\* BoardObject.move of the core revision: the board and positions it leaves
\* and how it ends ("False", NameError from the unbound target_obj of the
\* REPLACE and SWAP branches, or IndexError out of a write).
core_move(b, posn, own, o, d, existing) ==
  IF ~own[o] THEN [board |-> b, position |-> posn, ret |-> "False"]
  ELSE IF ~core_can_move_to(b, own, o, Add(posn[o], d), existing)
  THEN [board |-> b, position |-> posn, ret |-> "False"]
  ELSE
  LET cells == get_occupied_positions(o, posn[o])
      free == \A i \in DOMAIN cells :
                LET t == getitem(b, Add(cells[i], d)) IN t = o \/ isEmpty(t)
      tail == IF existing \in {"REPLACE", "SWAP"} THEN NameError ELSE "False"
  IN
  IF ~free THEN [board |-> b, position |-> posn, ret |-> tail]
  ELSE
  LET cleared == WriteAnchor(b, posn[o], Len(cells), EmptyObj) IN
  IF cleared.exc = IndexError
  THEN [board |-> cleared.board, position |-> posn, ret |-> IndexError]
  ELSE
  LET moved == [posn EXCEPT ![o] = Add(posn[o], d)]
      written == WriteAnchor(cleared.board, moved[o], Len(cells), o)
  IN
  IF written.exc = IndexError
  THEN [board |-> written.board, position |-> moved, ret |-> IndexError]
  ELSE [board |-> written.board, position |-> moved, ret |-> tail]

MoveObjs == {"P", "B1", "G"}

\* o.move(d, existing)
CoreMove(o, d, existing) ==
  /\ last = Idle
  /\ LET r == core_move(board, position, owner, o, d, existing) IN
     /\ board' = r.board
     /\ position' = r.position
     /\ last' = Call("move", o, d, existing, r.ret)
  /\ pre' = Snapshot(board, position, owner)
  /\ UNCHANGED io
  /\ UNCHANGED owner

NextMove ==
  \/ \E o \in MoveObjs, pos \in Cells : Place(o, pos)
  \/ \E o \in MoveObjs, d \in CoreDirections, e \in Policies :
       CoreMove(o, d, e)
  \/ Return

SpecMove == Init /\ [][NextMove]_vars

(***************************************************************************)
(* The grib.py revision: single-celled occupants, a position found by      *)
(* scanning the board, pushing.                                            *)
(***************************************************************************)
\* The Direction members of grib/grib.py, by value (aliases collapse).
GribDirections ==
  {<<0, -1>>, <<0, 1>>, <<1, 0>>, <<-1, 0>>,
   <<1, -1>>, <<-1, -1>>, <<1, 1>>, <<-1, 1>>}

\* Board.__setitem__ of grib.py: board[pos[1]][pos[0]] = value.
grib_setitem(b, pos, v) ==
  LET r == PyIndex(Len(b), Y(pos)) IN
  IF r = 0 THEN [board |-> b, exc |-> IndexError]
  ELSE LET c == PyIndex(Len(b[r]), X(pos)) IN
       IF c = 0 THEN [board |-> b, exc |-> IndexError]
       ELSE [board |-> [b EXCEPT ![r][c] = v], exc |-> "ok"]

\* Two assignments in a row, the second skipped when the first raises.
grib_write2(b, pos1, v1, pos2, v2) ==
  LET w == grib_setitem(b, pos1, v1) IN
  IF w.exc = IndexError THEN w ELSE grib_setitem(w.board, pos2, v2)

\* BoardObject.position: the first cell, rows first, that references o.
grib_position(b, own, o) ==
  IF ~own[o] THEN <<-1, -1>>
  ELSE LET at == OnBoard(b, o) IN
       IF at = {} THEN <<-1, 1>>
       ELSE CHOOSE pos \in at :
              \A q \in at : Y(pos) < Y(q) \/ (Y(pos) = Y(q) /\ X(pos) <= X(q))

\* _can_push_chain without its in_bounds test: the cell beyond is read as
\* Python indexes it.
RECURSIVE grib_can_push_chain_unbounded(_, _, _, _, _)
grib_can_push_chain_unbounded(b, own, o, d, chain_length) ==
  IF chain_length > MaxChain THEN FALSE
  ELSE IF ~own[o] THEN FALSE
  ELSE LET target_obj == getitem(b, Add(grib_position(b, own, o), d)) IN
       IF isEmpty(target_obj) THEN TRUE
       ELSE IF pushable(target_obj)
       THEN grib_can_push_chain_unbounded(b, own, target_obj, d,
                                          chain_length + 1)
       ELSE replaceable(target_obj)

\* _can_push_chain that lets a chain end at any occupant that is not
\* pushable, a Wall included.
RECURSIVE grib_can_push_chain_through_walls(_, _, _, _, _)
grib_can_push_chain_through_walls(b, own, o, d, chain_length) ==
  IF chain_length > MaxChain THEN FALSE
  ELSE IF ~own[o] THEN FALSE
  ELSE LET target_pos == Add(grib_position(b, own, o), d) IN
       IF ~in_bounds(b, target_pos) THEN FALSE
       ELSE LET target_obj == getitem(b, target_pos) IN
            IF pushable(target_obj)
            THEN grib_can_push_chain_through_walls(b, own, target_obj, d,
                                                   chain_length + 1)
            ELSE TRUE

\* BoardObject._can_push_chain
RECURSIVE grib_can_push_chain(_, _, _, _, _)
grib_can_push_chain(b, own, o, d, chain_length) ==
  IF chain_length > MaxChain THEN FALSE
  ELSE IF ~own[o] THEN FALSE
  ELSE LET target_pos == Add(grib_position(b, own, o), d) IN
       IF ~in_bounds(b, target_pos) THEN FALSE
       ELSE LET target_obj == getitem(b, target_pos) IN
            IF isEmpty(target_obj) THEN TRUE
            ELSE IF pushable(target_obj)
            THEN grib_can_push_chain(b, own, target_obj, d, chain_length + 1)
            ELSE replaceable(target_obj)

RecursionError == "RecursionError"

\* What an operation did, in order: a call it made (of _can_push_chain or
\* _push_chain on obj with direction pos, and its result) or a write
\* board[pos] = obj.
Event(ev, o, pos, ret) == [ev |-> ev, obj |-> o, pos |-> pos, ret |-> ret]
WriteEvent(pos, v) == Event("write", v, pos, "ok")

\* The writes of two assignments in a row that got through.
Write2Events(b, pos1, v1, pos2, v2) ==
  IF grib_setitem(b, pos1, v1).exc = IndexError THEN <<>>
  ELSE IF grib_setitem(grib_setitem(b, pos1, v1).board, pos2, v2).exc
            = IndexError
  THEN <<WriteEvent(pos1, v1)>>
  ELSE <<WriteEvent(pos1, v1), WriteEvent(pos2, v2)>>

\* What a call that ends with the write w returns or raises.
Raised(w, ret) == IF w.exc = IndexError THEN IndexError ELSE ret

\* _push_chain that steps onto the next cell without pushing its occupant on
\* first.
grib_push_chain_overwriting(b, own, o, d, seen) ==
  LET old_pos == grib_position(b, own, o)
      w == grib_write2(b, Add(old_pos, d), o, old_pos, EmptyObj)
  IN [board |-> w.board, ret |-> Raised(w, "True"),
      writes |-> Write2Events(b, Add(old_pos, d), o, old_pos, EmptyObj)]

\* BoardObject._push_chain: the board it leaves, its writes in order, and
\* what it returns ("True", "False") or raises (IndexError, or RecursionError when the
\* chain, wrapped around by a negative index, leads back to an occupant
\* already asked: the calls repeat on an unchanged board until Python's
\* recursion limit).  seen holds the occupants whose call is in progress.
RECURSIVE grib_push_chain_seen(_, _, _, _, _)
grib_push_chain_seen(b, own, o, d, seen) ==
  IF ~own[o] THEN [board |-> b, ret |-> "False", writes |-> <<>>]
  ELSE
  LET target_pos == Add(grib_position(b, own, o), d)
      target_obj == getitem(b, target_pos)
      inner == IF pushable(target_obj)
               THEN grib_push_chain_seen(b, own, target_obj, d,
                                         seen \cup {o})
               ELSE [board |-> b, ret |-> "True", writes |-> <<>>]
  IN
  IF target_obj = IndexError
  THEN [board |-> b, ret |-> IndexError, writes |-> <<>>]
  ELSE IF pushable(target_obj) /\ target_obj \in seen \cup {o}
  THEN [board |-> b, ret |-> RecursionError, writes |-> <<>>]
  ELSE IF inner.ret # "True" THEN inner
  ELSE LET b1 == inner.board
           refreshed == getitem(b1, target_pos)
           old_pos == grib_position(b1, own, o)
       IN
       IF isEmpty(refreshed) \/ replaceable(refreshed)
       THEN LET w == grib_write2(b1, target_pos, o, old_pos, EmptyObj)
            IN [board |-> w.board,
                ret |-> IF w.exc = IndexError THEN IndexError ELSE "True",
                writes |-> inner.writes \o
                           Write2Events(b1, target_pos, o, old_pos, EmptyObj)]
       ELSE [board |-> b1, ret |-> "False", writes |-> inner.writes]

grib_push_chain(b, own, o, d) == grib_push_chain_seen(b, own, o, d, {})

\* BoardObject.can_move_to of grib.py: "True", "False", or ValueError when
\* Direction((0, 0)) is asked for.
grib_can_move_to(b, own, o, new_pos, existing) ==
  IF ~own[o] \/ ~movable(o) THEN "False"
  ELSE IF ~in_bounds(b, new_pos) THEN "False"
  ELSE
  LET here == grib_position(b, own, o)
      dx == X(new_pos) - X(here)
      dy == Y(new_pos) - Y(here)
      target_obj == getitem(b, new_pos)
  IN
  IF isEmpty(target_obj) THEN "True"
  ELSE IF pushable(target_obj) /\ dx \in -1..1 /\ dy \in -1..1
  THEN IF <<dx, dy>> \notin GribDirections THEN "ValueError"
       ELSE IF grib_can_push_chain(b, own, target_obj, <<dx, dy>>, 0)
            THEN "True" ELSE "False"
  ELSE CASE existing = "FAIL" -> "False"
         [] existing = "SWAP" -> IF movable(target_obj) THEN "True" ELSE "False"
         [] existing = "REPLACE" ->
              IF replaceable(target_obj) THEN "True" ELSE "False"
         [] OTHER -> "False"

\* The tuple assignment of the SWAP branches:
\*   board[new_pos], board[self.position] = board[self.position], board[new_pos]
\* Both right-hand reads come first; self.position on the left is scanned
\* again after the first write.
grib_swap(b, own, o, new_pos) ==
  LET mine == getitem(b, grib_position(b, own, o))
      theirs == getitem(b, new_pos)
  IN
  IF mine = IndexError \/ theirs = IndexError
  THEN [board |-> b, exc |-> IndexError]
  ELSE LET w == grib_setitem(b, new_pos, mine) IN
       IF w.exc = IndexError THEN w
       ELSE grib_setitem(w.board, grib_position(w.board, own, o), theirs)

\* BoardObject.move_to of grib.py.
grib_move_to(b, own, o, new_pos, existing) ==
  IF ~own[o] THEN [board |-> b, ret |-> "None"]
  ELSE
  LET can == grib_can_move_to(b, own, o, new_pos, existing) IN
  IF can = "ValueError" THEN [board |-> b, ret |-> "ValueError"]
  ELSE IF can = "False" THEN [board |-> b, ret |-> "None"]
  ELSE
  CASE existing = "REPLACE" ->
         LET w1 == grib_setitem(b, new_pos, o) IN
         IF w1.exc = IndexError THEN [board |-> b, ret |-> IndexError]
         ELSE LET w2 == grib_setitem(w1.board,
                                     grib_position(w1.board, own, o), EmptyObj)
              IN [board |-> w2.board, ret |-> Raised(w2, "None")]
    [] existing = "SWAP" ->
         LET w == grib_swap(b, own, o, new_pos) IN
         [board |-> w.board, ret |-> Raised(w, "None")]
    [] existing = "FAIL" ->
         LET w == grib_write2(b, grib_position(b, own, o), EmptyObj,
                              new_pos, o)
         IN [board |-> w.board, ret |-> Raised(w, "None")]
    [] OTHER -> [board |-> b, ret |-> "ValueError"]

\* The call of _can_push_chain that can_move_to makes, if it makes one.
grib_can_move_to_events(b, own, o, new_pos) ==
  IF ~own[o] \/ ~movable(o) \/ ~in_bounds(b, new_pos) THEN <<>>
  ELSE
  LET here == grib_position(b, own, o)
      d == <<X(new_pos) - X(here), Y(new_pos) - Y(here)>>
      target_obj == getitem(b, new_pos)
  IN
  IF pushable(target_obj) /\ d \in GribDirections
  THEN <<Event("can_push_chain", target_obj, d,
               IF grib_can_push_chain(b, own, target_obj, d, 0)
               THEN "True" ELSE "False")>>
  ELSE <<>>

\* move that pushes the occupant of its target cell without asking
\* _can_push_chain or can_move_to first.
grib_move_speculative(b, own, o, d, existing) ==
  LET new_pos == Add(grib_position(b, own, o), d)
      target_obj == getitem(b, new_pos)
      pushed == grib_push_chain(b, own, target_obj, d)
  IN
  IF own[o] /\ in_bounds(b, new_pos) /\ pushable(target_obj)
  THEN [board |-> pushed.board, ret |-> pushed.ret,
        events |-> <<Event("push_chain", target_obj, d, pushed.ret)>> \o
                   pushed.writes]
  ELSE [board |-> b, ret |-> "False", events |-> <<>>]

\* BoardObject.move of grib.py: the board it leaves, what it returns or
\* raises, and the calls and writes it made, in order.
grib_move(b, own, o, d, existing) ==
  IF ~own[o] THEN [board |-> b, ret |-> "False", events |-> <<>>]
  ELSE
  LET here == grib_position(b, own, o)
      new_pos == Add(here, d)
      can == grib_can_move_to(b, own, o, new_pos, existing)
      asked == grib_can_move_to_events(b, own, o, new_pos)
  IN
  IF can # "True" THEN [board |-> b, ret |-> can, events |-> asked]
  ELSE
  LET target_obj == getitem(b, new_pos)
      checked == IF pushable(target_obj)
                 THEN <<Event("can_push_chain", target_obj, d,
                              IF grib_can_push_chain(b, own, target_obj, d, 0)
                              THEN "True" ELSE "False")>>
                 ELSE <<>>
  IN
  IF pushable(target_obj) /\ grib_can_push_chain(b, own, target_obj, d, 0)
  THEN LET pushed == grib_push_chain(b, own, target_obj, d)
           called == <<Event("push_chain", target_obj, d, pushed.ret)>>
           old_pos == grib_position(pushed.board, own, o)
       IN
       IF pushed.ret = IndexError
       THEN [board |-> pushed.board, ret |-> IndexError,
             events |-> asked \o checked \o called \o pushed.writes]
       ELSE LET w == grib_write2(pushed.board, new_pos, o, old_pos, EmptyObj)
            IN [board |-> w.board, ret |-> Raised(w, "True"),
                events |-> asked \o checked \o called \o pushed.writes \o
                           Write2Events(pushed.board, new_pos, o,
                                        old_pos, EmptyObj)]
  ELSE IF isEmpty(target_obj)
  THEN LET w == grib_write2(b, new_pos, o, here, EmptyObj) IN
       [board |-> w.board, ret |-> Raised(w, "True"),
        events |-> asked \o checked \o
                   Write2Events(b, new_pos, o, here, EmptyObj)]
  ELSE IF existing = "REPLACE" /\ replaceable(target_obj)
  THEN LET w == grib_write2(b, new_pos, o, here, EmptyObj) IN
       [board |-> w.board, ret |-> Raised(w, "True"),
        events |-> asked \o checked \o
                   Write2Events(b, new_pos, o, here, EmptyObj)]
  ELSE IF existing = "SWAP" /\ movable(target_obj)
  THEN LET w == grib_swap(b, own, o, new_pos) IN
       [board |-> w.board, ret |-> Raised(w, "True"),
        events |-> asked \o checked \o
                   Write2Events(b, new_pos, getitem(b, here),
                                grib_position(
                                  grib_setitem(b, new_pos,
                                               getitem(b, here)).board,
                                  own, o),
                                getitem(b, new_pos))]
  ELSE [board |-> b, ret |-> "False", events |-> asked \o checked]

(***************************************************************************)
(* Board.import_board_from_text of grib.py on the level the model starts   *)
(* from: one object per glyph, each with its board set.                    *)
(***************************************************************************)
GribObjs == {"P", "B1", "B2", "W1"}

\* get_object_for_char on the registered kinds Empty ".", Wall "#",
\* Player "@", Box "O": the kind whose display_char is the glyph.
get_object_for_char(char) ==
  CASE char = "." -> "Empty"
    [] char = "#" -> "Wall"
    [] char = "@" -> "Player"
    [] char = "O" -> "Box"
    [] OTHER -> "ValueError"

\* The level text, split into lines: a player, two boxes and a wall in the
\* first row, the rest empty.
LevelLines ==
  [r \in 1..GribHeight |->
     [c \in 1..GribWidth |->
        IF r # 1 THEN "."
        ELSE CASE c = 1 -> "@" [] c = 2 -> "O" [] c = 3 -> "O" [] c = 4 -> "#"
               [] OTHER -> "."]]

\* How many glyphs of the kind of lines[r][c] come before it, rows first.
EarlierOfKind(lines, r, c) ==
  Cardinality({rc \in UNION {{<<i, j>> : j \in 1..Len(lines[i])} :
                               i \in 1..Len(lines)} :
                 /\ rc[1] < r \/ (rc[1] = r /\ rc[2] < c)
                 /\ lines[rc[1]][rc[2]] = lines[r][c]})

NewInstance(kind, n) ==
  CASE kind = "Empty" -> EmptyObj
    [] kind = "Wall" -> "W1"
    [] kind = "Player" -> "P"
    [] kind = "Box" -> BoxId(n + 1)
    [] OTHER -> kind

import_board_from_text(lines) ==
  [r \in 1..Len(lines) |->
     [c \in 1..Len(lines[r]) |->
        NewInstance(get_object_for_char(lines[r][c]),
                    EarlierOfKind(lines, r, c))]]

GribInit ==
  /\ board = import_board_from_text(LevelLines)
  /\ position = [o \in AllObjs |-> Unplaced]
  /\ owner = [o \in AllObjs |-> OnBoard(board, o) # {}]
  /\ last = Idle
  /\ pre = Snapshot(board, position, owner)
  /\ text = NoText
  /\ saved = NoText
  /\ pf = NoSearch
  /\ returned = NoValue

\* Targets a caller passes to move_to: every cell, and two outside the board.
GribCells ==
  {<<x, y>> : x \in 0..(GribWidth - 1), y \in 0..(GribHeight - 1)}
GribPositions == GribCells \cup {<<-1, 0>>, <<GribWidth, GribHeight>>}

\* o.move(d, existing)
GribMove(o, d, existing) ==
  /\ last = Idle
  /\ LET r == grib_move(board, owner, o, d, existing) IN
     /\ board' = r.board
     /\ last' = Call("move", o, d, existing, r.ret)
  /\ pre' = Snapshot(board, position, owner)
  /\ UNCHANGED io
  /\ UNCHANGED <<position, owner>>

\* o.move_to(new_pos, existing)
GribMoveTo(o, new_pos, existing) ==
  /\ last = Idle
  /\ LET r == grib_move_to(board, owner, o, new_pos, existing) IN
     /\ board' = r.board
     /\ last' = Call("move_to", o, new_pos, existing, r.ret)
  /\ pre' = Snapshot(board, position, owner)
  /\ UNCHANGED io
  /\ UNCHANGED <<position, owner>>

GribNext ==
  \/ \E o \in GribObjs, d \in GribDirections, e \in Policies :
       GribMove(o, d, e)
  \/ \E o \in GribObjs, pos \in GribPositions, e \in Policies :
       GribMoveTo(o, pos, e)
  \/ Return

SpecGrib == GribInit /\ [][GribNext]_vars

(***************************************************************************)
(* Pushing in the grib.py revision (SpecPush): one-row levels of every     *)
(* arrangement of a player, boxes and at most one wall, on which a caller  *)
(* asks _can_push_chain and can_move_to, calls _push_chain directly and    *)
(* moves occupants.                                                        *)
(***************************************************************************)
PushWidth == 5

\* The level texts: one line with one "@", any number of "O" and "." and at
\* most one "#".
PushLevels ==
  {row \in [1..PushWidth -> {".", "@", "O", "#"}] :
     /\ Cardinality({i \in 1..PushWidth : row[i] = "@"}) = 1
     /\ Cardinality({i \in 1..PushWidth : row[i] = "#"}) <= 1}

PushObjs == {"P", "W1"} \cup {BoxId(i) : i \in 1..PushWidth}

PushInit ==
  /\ \E row \in PushLevels : board = import_board_from_text(<<row>>)
  /\ position = [o \in PushObjs |-> Unplaced]
  /\ owner = [o \in PushObjs |-> OnBoard(board, o) # {}]
  /\ last = Idle
  /\ pre = Snapshot(board, position, owner)
  /\ text = NoText
  /\ saved = NoText
  /\ pf = NoSearch
  /\ returned = NoValue

\* A check of a push made by carrying the push out on the board itself.
grib_can_push_chain_dry_run(b, own, o, d) ==
  [board |-> grib_push_chain(b, own, o, d).board,
   ret |-> IF grib_can_push_chain(b, own, o, d, 0) THEN "True" ELSE "False"]

\* A call of o._can_push_chain(d): the board it leaves and its result.
grib_can_push_chain_call(b, own, o, d) ==
  [board |-> b,
   ret |-> IF grib_can_push_chain(b, own, o, d, 0) THEN "True" ELSE "False"]

\* A call of o.can_move_to(new_pos, existing): the board it leaves and its
\* result.
grib_can_move_to_call(b, own, o, new_pos, existing) ==
  [board |-> b, ret |-> grib_can_move_to(b, own, o, new_pos, existing)]

\* o._can_push_chain(d)
GribCanPushChain(o, d) ==
  /\ last = Idle
  /\ owner[o]
  /\ LET r == grib_can_push_chain_call(board, owner, o, d) IN
     /\ board' = r.board
     /\ last' = Call("can_push_chain", o, d, "PUSH", r.ret)
  /\ pre' = Snapshot(board, position, owner)
  /\ UNCHANGED io
  /\ UNCHANGED <<position, owner>>

\* o._push_chain(d)
GribPushChain(o, d) ==
  /\ last = Idle
  /\ owner[o]
  /\ LET r == grib_push_chain(board, owner, o, d) IN
     /\ board' = r.board
     /\ last' = Call("push_chain", o, d, "PUSH", r.ret)
  /\ pre' = Snapshot(board, position, owner)
  /\ UNCHANGED io
  /\ UNCHANGED <<position, owner>>

\* o.can_move_to(new_pos, existing)
GribCanMoveTo(o, new_pos, existing) ==
  /\ last = Idle
  /\ owner[o]
  /\ LET r == grib_can_move_to_call(board, owner, o, new_pos, existing) IN
     /\ board' = r.board
     /\ last' = Call("can_move_to", o, new_pos, existing, r.ret)
  /\ pre' = Snapshot(board, position, owner)
  /\ UNCHANGED io
  /\ UNCHANGED <<position, owner>>

\* Targets a caller passes to can_move_to: every cell of the row and one on
\* either side of it.
PushPositions == {<<x, 0>> : x \in -1..PushWidth}

PushNext ==
  \/ \E o \in PushObjs, d \in GribDirections : GribCanPushChain(o, d)
  \/ \E o \in PushObjs, d \in GribDirections : GribPushChain(o, d)
  \/ \E o \in PushObjs, pos \in PushPositions, e \in Policies :
       GribCanMoveTo(o, pos, e)
  \/ \E o \in PushObjs, d \in GribDirections, e \in Policies :
       owner[o] /\ GribMove(o, d, e)
  \/ Return

SpecPush == PushInit /\ [][PushNext]_vars

(***************************************************************************)
(* Long lines of boxes in the grib.py revision (SpecLine): a one-row level *)
(* "@OO...O." of a player, n boxes and one Empty cell, for every n up to   *)
(* two past MaxChain; the player pushes east and steps back west, and a    *)
(* caller asks _can_push_chain of any occupant.                            *)
(***************************************************************************)
LineMax == MaxChain + 2

LineLevel(n) ==
  [c \in 1..(n + 2) |-> IF c = 1 THEN "@" ELSE IF c = n + 2 THEN "." ELSE "O"]

LineObjs == {"P"} \cup Boxes

LineInit ==
  /\ \E n \in 0..LineMax : board = import_board_from_text(<<LineLevel(n)>>)
  /\ position = [o \in LineObjs |-> Unplaced]
  /\ owner = [o \in LineObjs |-> OnBoard(board, o) # {}]
  /\ last = Idle
  /\ pre = Snapshot(board, position, owner)
  /\ text = NoText
  /\ saved = NoText
  /\ pf = NoSearch
  /\ returned = NoValue

LineDirections == {<<1, 0>>, <<-1, 0>>}

LineNext ==
  \/ \E d \in LineDirections : GribMove("P", d, "PUSH")
  \/ \E o \in LineObjs, d \in LineDirections : GribCanPushChain(o, d)
  \/ Return

SpecLine == LineInit /\ [][LineNext]_vars

(***************************************************************************)
(* The claims about the core revision, checked under Spec.                 *)
(***************************************************************************)
Placed(o) == owner[o] \/ OnBoard(board, o) # {}

\* C1: single ownership.  Every occupant on the board is referenced from
\* exactly the cells of its shape laid at its position.
C1_SingleOwnership ==
  \A o \in CoreObjs :
    Placed(o) => OnBoard(board, o) = Footprint(o, position[o])

\* The target cells of the place call just made were all in bounds and Empty.
PlaceFree ==
  /\ last.op = "place"
  /\ \A c \in Footprint(last.obj, last.pos) :
       in_bounds(pre.board, c) /\ isEmpty(getitem(pre.board, c))

\* C2: a place whose target cells are all in bounds and Empty succeeds; then
\* every target cell holds the occupant, the occupant's position is the
\* anchor, and every other cell is as before.
C2_PlaceWritesFootprint ==
  PlaceFree =>
    /\ last.ret = "None"
    /\ position[last.obj] = last.pos
    /\ \A c \in Cells :
         getitem(board, c) =
           IF c \in Footprint(last.obj, last.pos) THEN last.obj
           ELSE getitem(pre.board, c)

\* C3: place is atomic.  With a target cell out of bounds or not Empty it
\* reports failure (returns without raising), writes no cell and leaves the
\* position alone; otherwise it writes all the target cells.
C3_PlaceAtomic ==
  last.op = "place" =>
    IF PlaceFree
    THEN \A c \in Footprint(last.obj, last.pos) : getitem(board, c) = last.obj
    ELSE /\ last.ret \in {"False", "None"}
         /\ board = pre.board
         /\ position = pre.position

\* C4: get and set at a position outside [0, width) x [0, height) fail with
\* an index error and leave the board unchanged.
C4_OutOfBoundsRaises ==
  (last.op \in {"get", "set"} /\ ~in_bounds(pre.board, last.pos)) =>
    last.ret = IndexError /\ board = pre.board

\* C5: direct assignment of a multi-celled occupant to a cell is rejected and
\* leaves every cell and the occupant's position unchanged.
C5_SetMultiCellRejected ==
  (last.op = "set" /\ ~is_single_celled(last.obj)) =>
    /\ last.ret = "rejected"
    /\ board = pre.board
    /\ position = pre.position

\* C5's case: the big box has just been assigned to a cell of the board.
C5_Witness ==
  /\ last.op = "set"
  /\ last.obj = "G"
  /\ last.pos \in Cells
  /\ last.ret = "rejected"

(***************************************************************************)
(* The claims about moves, checked under SpecGrib.                         *)
(***************************************************************************)
\* Where the mover of the call just made stood, and the cell it asked for.
MoverHere == grib_position(pre.board, pre.owner, last.obj)
MoverTarget == IF last.op = "move" THEN Add(MoverHere, last.pos) ELSE last.pos
Blocker == getitem(pre.board, MoverTarget)

\* The call just made was a move or move_to of a movable occupant on the board
\* onto an in-bounds cell holding another, non-Empty occupant.
MoveOntoBlocker ==
  /\ last.op \in {"move", "move_to"}
  /\ movable(last.obj)
  /\ OnBoard(pre.board, last.obj) # {}
  /\ in_bounds(pre.board, MoverTarget)
  /\ ~isEmpty(Blocker)
  /\ Blocker # last.obj

Untouched == board = pre.board

\* b with the occupants of cells p and q exchanged.
Exchanged(b, p, q) ==
  [r \in 1..Len(b) |->
     [c \in 1..Len(b[r]) |->
        IF <<c - 1, r - 1>> = p THEN getitem(b, q)
        ELSE IF <<c - 1, r - 1>> = q THEN getitem(b, p)
        ELSE b[r][c]]]

\* C6: under FAIL a move onto a non-Empty occupant other than the mover is
\* illegal: can_move_to is false, move returns false, nothing is displaced.
C6_FailBlocks ==
  (MoveOntoBlocker /\ last.pol = "FAIL") =>
    /\ grib_can_move_to(pre.board, pre.owner, last.obj, MoverTarget, "FAIL")
         = "False"
    /\ last.op = "move" => last.ret = "False"
    /\ Untouched

\* C7: under SWAP a move onto a blocking occupant t is allowed iff t is
\* movable; then mover and t have exchanged cells, both positions report the
\* new cells and every other cell is unchanged.
C7_SwapExchanges ==
  (MoveOntoBlocker /\ last.op = "move" /\ last.pol = "SWAP") =>
    IF movable(Blocker)
    THEN /\ last.ret = "True"
         /\ board = Exchanged(pre.board, MoverHere, MoverTarget)
         /\ grib_position(board, owner, last.obj) = MoverTarget
         /\ grib_position(board, owner, Blocker) = MoverHere
    ELSE last.ret = "False" /\ Untouched

\* C8: under REPLACE a move onto a blocking occupant t is allowed iff t is
\* replaceable; then the mover is referenced from exactly the target cell, t
\* is on no cell and the mover's old cell holds Empty.
C8_ReplaceOverwrites ==
  (MoveOntoBlocker /\ last.pol = "REPLACE") =>
    IF replaceable(Blocker)
    THEN /\ OnBoard(board, last.obj) = {MoverTarget}
         /\ OnBoard(board, Blocker) = {}
         /\ isEmpty(getitem(board, MoverHere))
    ELSE /\ Untouched
         /\ last.op = "move" => last.ret = "False"

\* C9: move_to with policy PUSH raises for every board and every target and
\* never mutates the board.
C9_MoveToPushRaises ==
  (last.op = "move_to" /\ last.pol = "PUSH") =>
    last.ret = "ValueError" /\ Untouched

\* The push-chain rule of the specification, on cells: whether the occupant at
\* cell pos may be pushed in direction d.
RECURSIVE ChainMayMove(_, _, _, _)
ChainMayMove(b, pos, d, depth) ==
  LET next == Add(pos, d) IN
  /\ depth <= MaxChain
  /\ in_bounds(b, next)
  /\ \/ isEmpty(getitem(b, next))
     \/ pushable(getitem(b, next)) /\ ChainMayMove(b, next, d, depth + 1)
     \/ ~pushable(getitem(b, next)) /\ replaceable(getitem(b, next))

\* The legality rule of the specification for a single-celled mover o standing
\* at cell here and asking for cell here + d under a policy.
LegalMove(b, o, here, d, policy) ==
  LET c == Add(here, d) IN
  /\ movable(o)
  /\ in_bounds(b, c)
  /\ \/ isEmpty(getitem(b, c))
     \/ policy = "SWAP" /\ movable(getitem(b, c))
     \/ policy = "REPLACE" /\ replaceable(getitem(b, c))
     \/ policy = "PUSH" /\ pushable(getitem(b, c)) /\ ChainMayMove(b, c, d, 0)

\* C10: an illegal move returns false without raising and leaves the board as
\* it was.
C10_IllegalMoveIsNoOp ==
  ( /\ last.op = "move"
    /\ OnBoard(pre.board, last.obj) # {}
    /\ ~LegalMove(pre.board, last.obj, MoverHere, last.pos, last.pol) ) =>
    last.ret = "False" /\ Untouched

(***************************************************************************)
(* The claims about moves of the core revision, checked under SpecMove.    *)
(***************************************************************************)
\* The anchor the core move just made asked for.
CoreTarget == Add(pre.position[last.obj], last.pos)

\* The call just made was a move under FAIL of a placed, movable occupant
\* whose target cells are all in bounds and each Empty or its own.
LegalFailMove ==
  /\ last.op = "move"
  /\ last.pol = "FAIL"
  /\ pre.owner[last.obj]
  /\ movable(last.obj)
  /\ \A c \in Footprint(last.obj, CoreTarget) :
       /\ in_bounds(pre.board, c)
       /\ getitem(pre.board, c) = last.obj \/ isEmpty(getitem(pre.board, c))

\* C11: after a legal move under FAIL the cells referencing the mover are
\* exactly its shape laid at old position + d, its position is old position
\* + d, and every cell it left holds Empty.
C11_FailMoveShiftsFootprint ==
  LegalFailMove =>
    /\ OnBoard(board, last.obj) = Footprint(last.obj, CoreTarget)
    /\ position[last.obj] = CoreTarget
    /\ \A c \in OnBoard(pre.board, last.obj) \ Footprint(last.obj, CoreTarget) :
         isEmpty(getitem(board, c))

(***************************************************************************)
(* The claims about the push chain, checked under SpecPush.                *)
(***************************************************************************)
\* The cell of the occupant the call just made was made on.
CalleeHere == grib_position(pre.board, pre.owner, last.obj)

\* C12: _can_push_chain(x, d) is the reference decision on the cell one step
\* beyond x in direction d: out of bounds illegal, Empty legal, pushable the
\* decision for that occupant one level deeper, replaceable legal, anything
\* else illegal.
C12_CanPushChainIsReference ==
  last.op = "can_push_chain" =>
    (last.ret = "True" <=> ChainMayMove(pre.board, CalleeHere, last.pos, 0))

\* C12's case: the check was made on a box whose neighbour in the push
\* direction is another box, and the chain was found free to move.
C12_Witness ==
  /\ last.op = "can_push_chain"
  /\ pushable(last.obj)
  /\ in_bounds(pre.board, Add(CalleeHere, last.pos))
  /\ pushable(getitem(pre.board, Add(CalleeHere, last.pos)))
  /\ last.ret = "True"

(***************************************************************************)
(* The claim about the depth bound, checked under SpecLine.                *)
(***************************************************************************)
\* How many pushable occupants stand in a row from cell pos on in direction d.
RECURSIVE RunLength(_, _, _)
RunLength(b, pos, d) ==
  IF in_bounds(b, pos) /\ pushable(getitem(b, pos))
  THEN 1 + RunLength(b, Add(pos, d), d)
  ELSE 0

\* The cell after the run of pushable occupants that starts at pos.
RunEnd(b, pos, d) ==
  <<X(pos) + RunLength(b, pos, d) * X(d), Y(pos) + RunLength(b, pos, d) * Y(d)>>

\* C13: a push against a line of pushable occupants that ends in an Empty
\* cell is legal when the line has MaxChain occupants or fewer and illegal
\* (nothing moves) when it has more.
C13_DepthBound ==
  ( /\ last.op = "move"
    /\ last.pol = "PUSH"
    /\ RunLength(pre.board, MoverTarget, last.pos) >= 1
    /\ in_bounds(pre.board, RunEnd(pre.board, MoverTarget, last.pos))
    /\ isEmpty(getitem(pre.board, RunEnd(pre.board, MoverTarget, last.pos))) )
  =>
    IF RunLength(pre.board, MoverTarget, last.pos) <= MaxChain
    THEN last.ret = "True"
    ELSE last.ret = "False" /\ Untouched

(***************************************************************************)
(* The claims about the order of a push, checked under SpecPush.           *)
(***************************************************************************)
\* The cells of the run of pushable occupants that starts at pos, nearest
\* first.
ChainCells(b, pos, d) ==
  [i \in 1..RunLength(b, pos, d) |->
     <<X(pos) + (i - 1) * X(d), Y(pos) + (i - 1) * Y(d)>>]

\* The board after the first t of the events ws, writes applied in order.
RECURSIVE Replay(_, _, _)
Replay(b, ws, t) ==
  IF t = 0 THEN b
  ELSE IF ws[t].ev = "write"
       THEN grib_setitem(Replay(b, ws, t - 1), ws[t].pos, ws[t].obj).board
       ELSE Replay(b, ws, t - 1)

\* The index of the first write of occupant v among the events ws, 0 if none.
FirstWriteOf(ws, v) ==
  IF \E t \in DOMAIN ws : ws[t].ev = "write" /\ ws[t].obj = v
  THEN CHOOSE t \in DOMAIN ws :
         /\ ws[t].ev = "write" /\ ws[t].obj = v
         /\ \A u \in 1..(t - 1) : ~(ws[u].ev = "write" /\ ws[u].obj = v)
  ELSE 0

\* The call just made was _push_chain on a pushable occupant whose chain
\* _can_push_chain finds free to move.
LegalPush ==
  /\ last.op = "push_chain"
  /\ pushable(last.obj)
  /\ grib_can_push_chain(pre.board, pre.owner, last.obj, last.pos, 0)

\* C14: _push_chain commits innermost first.  Every chain member is written
\* to the cell one step on, a farther member before a nearer one; no write
\* lands on a member that has not yet been written to its new cell; and
\* afterwards every member is on the board one cell further.
C14_InnermostFirst ==
  LegalPush =>
    LET ws == grib_push_chain(pre.board, pre.owner, last.obj, last.pos).writes
        cells == ChainCells(pre.board, CalleeHere, last.pos)
        member(i) == getitem(pre.board, cells[i])
    IN
    /\ last.ret = "True"
    /\ board = Replay(pre.board, ws, Len(ws))
    /\ \A i \in DOMAIN cells :
         /\ FirstWriteOf(ws, member(i)) > 0
         /\ ws[FirstWriteOf(ws, member(i))].pos = Add(cells[i], last.pos)
         /\ OnBoard(board, member(i)) = {Add(cells[i], last.pos)}
    /\ \A i \in DOMAIN cells : \A j \in DOMAIN cells :
         i < j => FirstWriteOf(ws, member(j)) < FirstWriteOf(ws, member(i))
    /\ \A t \in DOMAIN ws :
         LET before == getitem(Replay(pre.board, ws, t - 1), ws[t].pos) IN
         pushable(before) =>
           FirstWriteOf(ws, before) > 0 /\ FirstWriteOf(ws, before) < t

\* C14's case: a chain of three boxes has just been pushed.
C14_Witness ==
  /\ LegalPush
  /\ RunLength(pre.board, CalleeHere, last.pos) >= 3
  /\ last.ret = "True"

\* C15: check then commit.  In a move, _push_chain is called on a target
\* only after _can_push_chain returned true for that target and direction,
\* and no write to the board comes before either call.
C15_CheckThenCommit ==
  last.op = "move" =>
    LET ev == grib_move(pre.board, pre.owner, last.obj, last.pos,
                        last.pol).events
    IN
    /\ board = Replay(pre.board, ev, Len(ev))
    /\ \A i \in DOMAIN ev :
         ev[i].ev \in {"push_chain", "can_push_chain"} =>
           \A j \in 1..(i - 1) : ev[j].ev # "write"
    /\ \A i \in DOMAIN ev :
         ev[i].ev = "push_chain" =>
           \E j \in 1..(i - 1) :
             /\ ev[j].ev = "can_push_chain"
             /\ ev[j].obj = ev[i].obj
             /\ ev[j].pos = ev[i].pos
             /\ ev[j].ret = "True"

\* C15's case: a move has just pushed the box on its target cell.
C15_Witness ==
  /\ last.op = "move"
  /\ last.ret = "True"
  /\ in_bounds(pre.board, MoverTarget)
  /\ pushable(getitem(pre.board, MoverTarget))
  /\ grib_position(board, owner, getitem(pre.board, MoverTarget))
       = Add(MoverTarget, last.pos)

\* C16: _can_push_chain answers as a dry run of _push_chain would.  For a
\* pushable occupant on the board, _push_chain reports success exactly when
\* _can_push_chain is true of the same board, and when it is false
\* _push_chain leaves every cell as it was.
C16_CheckEqualsDryRun ==
  (last.op = "push_chain" /\ pushable(last.obj)) =>
    LET can == grib_can_push_chain(pre.board, pre.owner, last.obj,
                                   last.pos, 0)
    IN
    /\ last.ret = "True" <=> can
    /\ ~can => Untouched

\* C17: can_move_to and _can_push_chain are pure.  After either call every
\* cell of the board holds what it held before, and so every occupant is
\* found at the position it had.
C17_ChecksArePure ==
  last.op \in {"can_push_chain", "can_move_to"} =>
    /\ board = pre.board
    /\ position = pre.position
    /\ owner = pre.owner
    /\ \A o \in PushObjs :
         grib_position(board, owner, o)
           = grib_position(pre.board, pre.owner, o)

\* C17's case: a check has just found that a chain of boxes may be pushed.
C17_Witness ==
  /\ last.op \in {"can_push_chain", "can_move_to"}
  /\ last.ret = "True"
  /\ \E o \in PushObjs : pushable(o) /\ OnBoard(pre.board, o) # {}
  /\ \/ /\ last.op = "can_push_chain"
        /\ pushable(last.obj)
        /\ RunLength(pre.board, CalleeHere, last.pos) >= 2
     \/ /\ last.op = "can_move_to"
        /\ in_bounds(pre.board, last.pos)
        /\ pushable(getitem(pre.board, last.pos))

\* The call just made was a push by the Player against a run of pushable
\* occupants that ends at the board edge or at a Wall.
BlockedPush ==
  /\ last.op = "move"
  /\ last.pol = "PUSH"
  /\ last.obj = "P"
  /\ OnBoard(pre.board, "P") # {}
  /\ RunLength(pre.board, MoverTarget, last.pos) >= 1
  /\ LET stop == RunEnd(pre.board, MoverTarget, last.pos) IN
     \/ ~in_bounds(pre.board, stop)
     \/ Kind(getitem(pre.board, stop)) = "Wall"

\* C19: a push whose chain ends at a Wall or at the board edge fails.  move
\* returns false and no occupant changes cell.
C19_BlockedPushMovesNothing ==
  BlockedPush => last.ret = "False" /\ Untouched /\ position = pre.position

\* C19's case: the Player has just pushed two boxes that stand against a
\* Wall.
C19_Witness ==
  /\ BlockedPush
  /\ RunLength(pre.board, MoverTarget, last.pos) >= 2
  /\ in_bounds(pre.board, RunEnd(pre.board, MoverTarget, last.pos))
  /\ last.ret = "False"

(***************************************************************************)
(* The push of a single box, checked under SpecMove.                       *)
(***************************************************************************)
\* The call just made was move(d, PUSH) of the Player, who stood on the cell
\* of its stored position with a Box on the next cell in direction d and an
\* Empty cell beyond the Box.
PushOneBox ==
  /\ last.op = "move"
  /\ last.pol = "PUSH"
  /\ last.obj = "P"
  /\ pre.owner["P"]
  /\ OnBoard(pre.board, "P") = {pre.position["P"]}
  /\ in_bounds(pre.board, CoreTarget)
  /\ Kind(getitem(pre.board, CoreTarget)) = "Box"
  /\ OnBoard(pre.board, getitem(pre.board, CoreTarget)) = {CoreTarget}
  /\ in_bounds(pre.board, Add(CoreTarget, last.pos))
  /\ isEmpty(getitem(pre.board, Add(CoreTarget, last.pos)))

\* C18: the Player pushes a Box that has an Empty cell behind it.  move
\* returns true, the Player stands on the Box's former cell, the Box is one
\* cell further on, the Player's former cell is Empty and every other cell
\* is unchanged.
C18_PushMovesBox ==
  PushOneBox =>
    LET box == getitem(pre.board, CoreTarget)
        beyond == Add(CoreTarget, last.pos)
    IN
    /\ last.ret = "True"
    /\ getitem(board, CoreTarget) = "P"
    /\ getitem(board, beyond) = box
    /\ isEmpty(getitem(board, pre.position["P"]))
    /\ \A c \in Cells :
         c \notin {pre.position["P"], CoreTarget, beyond} =>
           getitem(board, c) = getitem(pre.board, c)

(***************************************************************************)
(* Board.load_state and Board.save_state of the core package.  A text is   *)
(* a sequence of one-character strings.                                    *)
(***************************************************************************)
LoadRows == 2
LoadCols == 2
Newline == "\n"
LoadGlyphs == {"#", "@", "O", "."}

\* The subclasses of BoardObject that ObjectRegistry holds.
CoreObjectTypes == {"Empty", "Wall", "Symbol", "Player", "Box", "BigBox"}

\* display_char of a fresh instance of a class: the top left string of its
\* Shape.  Empty's shape is the two-character string "[]".
KindDisplayChar(kind) ==
  CASE kind = "Empty" -> "[]"
    [] kind = "Wall" -> "#"
    [] kind = "Symbol" -> "C"
    [] kind = "Player" -> "@"
    [] kind = "Box" -> "O"
    [] kind = "BigBox" -> "+"
    [] OTHER -> "?"

\* BoardObject.display_char
display_char(o) == KindDisplayChar(Kind(o))

\* Board.get_object_for_char of core/board.py: the one registered class
\* whose display_char is the character; ValueError if there is none or
\* more than one.
core_get_object_for_char(char) ==
  LET possible == {k \in CoreObjectTypes : KindDisplayChar(k) = char} IN
  IF Cardinality(possible) = 1 THEN CHOOSE k \in possible : TRUE
  ELSE "ValueError"

\* A fresh instance of a class, the n-th of its kind on the board.
core_new_instance(kind, n) ==
  CASE kind = "Empty" -> EmptyObj
    [] kind = "Wall" -> "W1"
    [] kind = "Symbol" -> SymbolObj
    [] kind = "Player" -> "P"
    [] kind = "Box" -> BoxId(n + 1)
    [] kind = "BigBox" -> "G"
    [] OTHER -> kind

\* str.split("\n")
RECURSIVE SplitLines(_)
SplitLines(t) ==
  IF \A i \in DOMAIN t : t[i] # Newline THEN <<t>>
  ELSE LET i == CHOOSE k \in DOMAIN t :
                  t[k] = Newline /\ \A j \in 1..(k - 1) : t[j] # Newline
       IN <<SubSeq(t, 1, i - 1)>> \o SplitLines(SubSeq(t, i + 1, Len(t)))

\* "\n".join(rows)
RECURSIVE JoinLines(_)
JoinLines(rows) ==
  IF Len(rows) = 0 THEN <<>>
  ELSE IF Len(rows) = 1 THEN rows[1]
  ELSE rows[1] \o <<Newline>> \o JoinLines(Tail(rows))

\* The cells of the lines whose character get_object_for_char rejects.
BadCells(lines) ==
  {rc \in UNION {{<<r, c>> : c \in 1..Len(lines[r])} : r \in 1..Len(lines)} :
     core_get_object_for_char(lines[rc[1]][rc[2]]) = "ValueError"}

\* Board.load_state: the board is emptied, then filled row by row and cell
\* by cell; a character that get_object_for_char rejects raises ValueError
\* and leaves the rows built so far.
core_load_state(t) ==
  LET lines == SplitLines(t)
      bad == BadCells(lines)
      cell(r, c) == core_new_instance(core_get_object_for_char(lines[r][c]),
                                      EarlierOfKind(lines, r, c))
  IN
  IF bad = {}
  THEN [board |-> [r \in 1..Len(lines) |->
                     [c \in 1..Len(lines[r]) |-> cell(r, c)]],
        ret |-> "None"]
  ELSE LET first == CHOOSE rc \in bad :
                      \A other \in bad :
                        \/ rc[1] < other[1]
                        \/ rc[1] = other[1] /\ rc[2] <= other[2]
       IN [board |-> [r \in 1..first[1] |->
                        [c \in 1..(IF r = first[1] THEN first[2] - 1
                                   ELSE Len(lines[r])) |-> cell(r, c)]],
           ret |-> "ValueError"]

\* Board.save_state: the display_char of every cell, as a list of rows.
core_save_state(b) ==
  [r \in 1..Len(b) |-> [c \in 1..Len(b[r]) |-> display_char(b[r][c])]]

\* The texts a caller loads: up to LoadRows lines of up to LoadCols glyphs
\* each, with or without a newline after the last line, and with at most one
\* Player and one Wall.
LoadLines == UNION {[1..k -> LoadGlyphs] : k \in 0..LoadCols}
LoadTexts ==
  {t \in UNION {{JoinLines(ls), JoinLines(ls) \o <<Newline>>} :
                  ls \in UNION {[1..n -> LoadLines] : n \in 1..LoadRows}} :
     /\ Cardinality({i \in DOMAIN t : t[i] = "@"}) <= 1
     /\ Cardinality({i \in DOMAIN t : t[i] = "#"}) <= 1}

LoadObjs == {"P", "W1"} \cup {BoxId(i) : i \in 1..(LoadRows * LoadCols)}

\* Board(Width, Height), nothing loaded or saved yet.
LoadInit ==
  /\ board = NewBoard(Width, Height)
  /\ position = [o \in LoadObjs |-> Unplaced]
  /\ owner = [o \in LoadObjs |-> FALSE]
  /\ last = Idle
  /\ pre = Snapshot(board, position, owner)
  /\ text = NoText
  /\ saved = NoText
  /\ pf = NoSearch
  /\ returned = NoValue

\* board.load_state(t).  The instances it creates have their board set and
\* keep the position (-1, -1) of the constructor.
LoadState(t) ==
  /\ last = Idle
  /\ board' = core_load_state(t).board
  /\ position' = [o \in LoadObjs |-> Unplaced]
  /\ owner' = [o \in LoadObjs |-> OnBoard(board', o) # {}]
  /\ last' = Call("load_state", EmptyObj, NoArg, "FAIL",
                  core_load_state(t).ret)
  /\ pre' = Snapshot(board, position, owner)
  /\ text' = t
  /\ saved' = NoText
  /\ UNCHANGED <<pf, returned>>

\* board.save_state()
SaveState ==
  /\ last = Idle
  /\ saved' = core_save_state(board)
  /\ last' = Call("save_state", EmptyObj, NoArg, "FAIL", "list")
  /\ pre' = Snapshot(board, position, owner)
  /\ UNCHANGED <<board, position, owner, text, pf, returned>>

LoadNext ==
  \/ \E t \in LoadTexts : LoadState(t)
  \/ SaveState
  \/ Return

SpecLoad == LoadInit /\ [][LoadNext]_vars

\* The rows of a text: its lines, without the empty piece that follows a
\* final newline.
TextRows(t) ==
  LET lines == SplitLines(t) IN
  IF Len(t) > 0 /\ t[Len(t)] = Newline
  THEN SubSeq(lines, 1, Len(lines) - 1) ELSE lines

Rectangular(t) ==
  \A r \in DOMAIN TextRows(t) : Len(TextRows(t)[r]) = Len(TextRows(t)[1])

\* C20: round trip of a rectangular text.  load_state accepts it and builds
\* one row per text row and one cell per glyph, and save_state of the board
\* so loaded gives the rows of the text back, glyph for glyph.
C20_RoundTrip ==
  /\ (last.op = "load_state" /\ Rectangular(text)) =>
       /\ last.ret = "None"
       /\ Len(board) = Len(TextRows(text))
       /\ \A r \in DOMAIN board : Len(board[r]) = Len(TextRows(text)[r])
  /\ (/\ last.op = "save_state"
      /\ Rectangular(text)
      /\ core_load_state(text).ret = "None"
      /\ board = core_load_state(text).board) =>
       JoinLines(saved) = text

\* C21: load_state maps each character to exactly one registered kind.  It
\* fails exactly when some character of the text has no kind or more than
\* one, and a failed load leaves the board with the contents it had.
C21_FailedLoadKeepsBoard ==
  last.op = "load_state" =>
    /\ last.ret = "ValueError" <=>
         \E i \in DOMAIN text :
           /\ text[i] # Newline
           /\ Cardinality({k \in CoreObjectTypes :
                             KindDisplayChar(k) = text[i]}) # 1
    /\ last.ret = "ValueError" => board = pre.board

(***************************************************************************)
(* Resizing and clearing the board of the core package (SpecResize): the   *)
(* width and height setters, clear and clear_area of core/board.py, on a   *)
(* board a caller also assigns a symbol to.                                *)
(***************************************************************************)
ResizeWidth == 2
ResizeHeight == 2

\* n Empty cells.
Empties(n) == [i \in 1..n |-> EmptyObj]

\* Board.width setter.  Shrinking without force only prints a warning; with
\* force every row is popped until its length is the value (a row shorter
\* than the value is popped empty and the next pop raises IndexError).
\* Otherwise each row is extended by value - self.width Empty cells, where
\* self.width is the length of the first row at the time that row is
\* reached: the first row grows to the value, the rows after it by nothing.
width_setter(b, value, force) ==
  IF value < width(b)
  THEN IF ~force THEN [board |-> b, exc |-> "ok"]
       ELSE LET short == {r \in DOMAIN b : Len(b[r]) < value} IN
            IF short = {}
            THEN [board |-> [r \in DOMAIN b |-> SubSeq(b[r], 1, value)],
                  exc |-> "ok"]
            ELSE LET stop == CHOOSE r \in short : \A q \in short : r <= q IN
                 [board |-> [r \in DOMAIN b |->
                               IF r < stop THEN SubSeq(b[r], 1, value)
                               ELSE IF r = stop THEN <<>> ELSE b[r]],
                  exc |-> IndexError]
  ELSE [board |-> [r \in DOMAIN b |->
                     IF r = 1 THEN b[r] \o Empties(value - width(b))
                     ELSE b[r]],
        exc |-> "ok"]

\* Board.height setter.  Shrinking without force only prints a warning; with
\* force the last rows are popped.  Otherwise rows of self.width Empty cells
\* are appended until there are value rows.
height_setter(b, value, force) ==
  IF value < height(b)
  THEN IF ~force THEN [board |-> b, exc |-> "ok"]
       ELSE [board |-> SubSeq(b, 1, value), exc |-> "ok"]
  ELSE [board |-> b \o [i \in 1..(value - height(b)) |-> Empties(width(b))],
        exc |-> "ok"]

\* Board.clear: list.clear() on every row.
clear(b) == [r \in DOMAIN b |-> <<>>]

\* Board.clear_area: the cells of the rectangle, rows first, each written
\* with Empty through __setitem__ if it is in bounds.
clear_area(b, start_pos, end_pos) ==
  LET Min(i, j) == IF i < j THEN i ELSE j
      Max(i, j) == IF i < j THEN j ELSE i
      x1 == Min(X(start_pos), X(end_pos))
      y1 == Min(Y(start_pos), Y(end_pos))
      w == Max(X(start_pos), X(end_pos)) - x1 + 1
      h == Max(Y(start_pos), Y(end_pos)) - y1 + 1
      all == [i \in 1..(w * h) |-> <<x1 + ((i - 1) % w), y1 + ((i - 1) \div w)>>]
      inside(pos) == in_bounds(b, pos)
  IN WriteAll(b, SelectSeq(all, inside), EmptyObj)

\* Board(ResizeWidth, ResizeHeight)
ResizeInit ==
  /\ board = NewBoard(ResizeWidth, ResizeHeight)
  /\ position = [o \in AllObjs |-> Unplaced]
  /\ owner = [o \in AllObjs |-> FALSE]
  /\ last = Idle
  /\ pre = Snapshot(board, position, owner)
  /\ text = NoText
  /\ saved = NoText
  /\ pf = NoSearch
  /\ returned = NoValue

\* Board.width.fset(b, value, force); b.width = value is the call without
\* force.
SetWidth(value, force) ==
  /\ last = Idle
  /\ LET w == width_setter(board, value, force) IN
     /\ board' = w.board
     /\ last' = Call("set_width", EmptyObj, <<value, value>>,
                     IF force THEN "force" ELSE "FAIL", w.exc)
  /\ pre' = Snapshot(board, position, owner)
  /\ UNCHANGED io
  /\ UNCHANGED <<position, owner>>

\* Board.height.fset(b, value, force)
SetHeight(value, force) ==
  /\ last = Idle
  /\ LET w == height_setter(board, value, force) IN
     /\ board' = w.board
     /\ last' = Call("set_height", EmptyObj, <<value, value>>,
                     IF force THEN "force" ELSE "FAIL", w.exc)
  /\ pre' = Snapshot(board, position, owner)
  /\ UNCHANGED io
  /\ UNCHANGED <<position, owner>>

\* b.clear()
Clear ==
  /\ last = Idle
  /\ board' = clear(board)
  /\ last' = Call("clear", EmptyObj, NoArg, "FAIL", "None")
  /\ pre' = Snapshot(board, position, owner)
  /\ UNCHANGED io
  /\ UNCHANGED <<position, owner>>

\* b.clear_area(start_pos, end_pos)
ClearArea(start_pos, end_pos) ==
  /\ last = Idle
  /\ LET w == clear_area(board, start_pos, end_pos) IN
     /\ board' = w.board
     /\ last' = Call("clear_area", EmptyObj, start_pos \o end_pos, "FAIL",
                     w.exc)
  /\ pre' = Snapshot(board, position, owner)
  /\ UNCHANGED io
  /\ UNCHANGED <<position, owner>>

ResizeCells ==
  {<<x, y>> : x \in 0..ResizeWidth, y \in 0..ResizeHeight}

ResizeNext ==
  \/ \E value \in 0..(ResizeWidth + 1), force \in BOOLEAN :
       SetWidth(value, force)
  \/ \E value \in 1..(ResizeHeight + 1), force \in BOOLEAN :
       SetHeight(value, force)
  \/ Clear
  \/ \E start_pos \in ResizeCells, end_pos \in ResizeCells :
       ClearArea(start_pos, end_pos)
  \/ \E pos \in ResizeCells : SetCell(pos, SymbolObj)
  \/ Return

SpecResize == ResizeInit /\ [][ResizeNext]_vars

\* Every row of b has the length of the first.
IsRectangular(b) == \A r \in DOMAIN b : Len(b[r]) = width(b)

\* C22: the cell matrix stays a rectangle of occupants.  Every row has
\* width cells, every cell holds an occupant, and only a resize changes
\* the width or the height.
C22_MatrixStaysRectangular ==
  /\ IsRectangular(board)
  /\ \A r \in DOMAIN board : \A c \in DOMAIN board[r] :
       Kind(board[r][c]) # "None"
  /\ last.op \notin {"set_width", "set_height"} =>
       width(board) = width(pre.board) /\ height(board) = height(pre.board)

\* C23: the resize guard.  On a rectangular board a smaller width or height
\* without force changes nothing, with force it removes exactly the
\* trailing columns or rows, and a larger value keeps every cell and fills
\* the new ones with Empty.
C23_ResizeGuard ==
  (last.op \in {"set_width", "set_height"} /\ IsRectangular(pre.board)) =>
    LET value == last.pos[1]
        old == pre.board
        w == IF last.op = "set_width" THEN value ELSE width(old)
        h == IF last.op = "set_height" THEN value ELSE height(old)
        smaller == w < width(old) \/ h < height(old)
    IN
    IF smaller /\ last.pol # "force" THEN board = old
    ELSE board = [r \in 1..h |->
                    [c \in 1..w |->
                       IF r <= height(old) /\ c <= width(old)
                       THEN old[r][c] ELSE EmptyObj]]

(***************************************************************************)
(* Grid.pathfind of core/grid.py (SpecPath): A* over a Grid whose cells    *)
(* hold the default "." or a GameObject, called with the default cost      *)
(* function and heuristic and diagonal=False.  Grid coordinates are        *)
(* <<row, col>>.  One step of the model is one pass of the while loop; the *)
(* call returns in the step that ends the loop.                            *)
(***************************************************************************)
PathRows == 2
PathCols == 3

GridDefault == "."
GameObject == "GameObject"

\* The grids searched: at most one GameObject in a row.
PathGrids ==
  {g \in [1..PathRows -> [1..PathCols -> {GridDefault, GameObject}]] :
     \A r \in 1..PathRows :
       Cardinality({c \in 1..PathCols : g[r][c] = GameObject}) <= 1}

\* Grid.in_bounds
grid_in_bounds(g, pos) ==
  /\ 0 <= pos[1] /\ pos[1] < Len(g)
  /\ 0 <= pos[2] /\ pos[2] < Len(g[1])

\* Grid.__getitem__ on a position in bounds: self._grid[row][col]
grid_getitem(g, pos) == g[pos[1] + 1][pos[2] + 1]

\* The predicate pathfind builds from its arguments: walkable=[str],
\* walls=[GameObject], or neither.
can_traverse(mode, obj) ==
  CASE mode = "walkable" -> obj = GridDefault
    [] mode = "walls" -> obj # GameObject
    [] OTHER -> TRUE

\* directions of pathfind with diagonal=False, in the order of the list.
PathDirections == <<<<0, 1>>, <<0, -1>>, <<1, 0>>, <<-1, 0>>>>

\* directions of pathfind with diagonal=True, in the order of the list.
DiagonalDirections ==
  <<<<0, 1>>, <<0, -1>>, <<1, 0>>, <<-1, 0>>,
    <<1, 1>>, <<1, -1>>, <<-1, 1>>, <<-1, -1>>>>

directions(diagonal) ==
  IF diagonal THEN DiagonalDirections ELSE PathDirections

\* get_neighbors of pathfind
get_neighbors(g, diagonal, pos) ==
  LET inside(n) == grid_in_bounds(g, n) IN
  SelectSeq([i \in 1..Len(directions(diagonal)) |->
               Add(pos, directions(diagonal)[i])],
            inside)

\* Grid.manhattan_distance
manhattan_distance(p1, p2) ==
  (IF p1[1] >= p2[1] THEN p1[1] - p2[1] ELSE p2[1] - p1[1])
  + (IF p2[2] >= p1[2] THEN p2[2] - p1[2] ELSE p1[2] - p2[2])

\* The largest r in lo..hi with r * r <= n, by bisection.
RECURSIVE isqrt(_, _, _)
isqrt(n, lo, hi) ==
  IF lo >= hi THEN lo
  ELSE LET mid == (lo + hi + 1) \div 2 IN
       IF mid * mid <= n THEN isqrt(n, mid, hi) ELSE isqrt(n, lo, mid - 1)

\* Grid.distance, the Euclidean distance, in thousandths rounded down.
distance(p1, p2) ==
  LET sq == (p1[1] - p2[1]) * (p1[1] - p2[1])
            + (p1[2] - p2[2]) * (p1[2] - p2[2])
  IN isqrt(sq * 1000 * 1000, 0, 1000 * (sq + 1))

\* f_score = tentative_g + heuristic(neighbor, end) with the default
\* heuristic: Manhattan, or with diagonal=True Euclidean; the latter in
\* thousandths, which orders the values as Python's floats do.
f_score(diagonal, tentative_g, neighbor, end) ==
  IF diagonal THEN 1000 * tentative_g + distance(neighbor, end)
  ELSE tentative_g + manhattan_distance(neighbor, end)

\* Python's order on the tuples (f_score, counter, (row, col)).
EntryLess(a, b) ==
  \/ a[1] < b[1]
  \/ a[1] = b[1] /\ a[2] < b[2]
  \/ a[1] = b[1] /\ a[2] = b[2] /\ a[3][1] < b[3][1]
  \/ a[1] = b[1] /\ a[2] = b[2] /\ a[3][1] = b[3][1] /\ a[3][2] < b[3][2]

\* A pop that ignores f_score: the entry pushed last.
heappop_last(queue) ==
  CHOOSE e \in queue : \A o \in queue : e[2] >= o[2]

\* A pop that prefers, among equal f_score, the entry pushed last.
heappop_newest(queue) ==
  CHOOSE e \in queue :
    \A o \in queue : e[1] < o[1] \/ (e[1] = o[1] /\ e[2] >= o[2])

\* heapq.heappop: the smallest entry of the queue.
heappop(queue) ==
  CHOOSE e \in queue : \A o \in queue : o = e \/ EntryLess(e, o)

\* A pop that leaves the popped entry in the queue.
heap_rest_keeping(queue, entry) == queue

\* heapq.heappop: the queue without the entry it returned.
heap_rest(queue, entry) == queue \ {entry}

\* neighbor not in g_score or tentative_g < g_score[neighbor]
improves(g_score, neighbor, tentative_g) ==
  neighbor \notin DOMAIN g_score \/ tentative_g < g_score[neighbor]

NonePos == <<>>

\* The path from start to current, following came_from back to None.
RECURSIVE reconstruct(_, _)
reconstruct(came_from, current) ==
  IF current = NonePos THEN <<>>
  ELSE reconstruct(came_from, came_from[current]) \o <<current>>

\* The body of the for loop for one neighbour of current.
relax_one(g, s, current, neighbor) ==
  LET tentative_g == s.g_score[current] + 1 IN
  IF ~can_traverse(s.mode, grid_getitem(g, neighbor)) THEN s
  ELSE IF improves(s.g_score, neighbor, tentative_g)
  THEN [s EXCEPT
          !.came_from = (neighbor :> current) @@ s.came_from,
          !.g_score = (neighbor :> tentative_g) @@ s.g_score,
          !.counter = s.counter + 1,
          !.priority_queue =
             s.priority_queue \cup
               {<<f_score(s.diagonal, tentative_g, neighbor, s.goal),
                  s.counter + 1, neighbor>>}]
  ELSE s

\* The for loop over the neighbours of current, from the i-th on: the body
\* for the i-th, then the rest from the state t it leaves.
RECURSIVE relax(_, _, _, _, _)
relax(g, s, current, ns, i) ==
  IF i > Len(ns) THEN s
  ELSE CHOOSE out \in {relax(g, t, current, ns, i + 1) :
                         t \in {relax_one(g, s, current, ns[i])}} : TRUE

\* The state pathfind sets up before its loop.
pathfind_start(start, goal, mode, diagonal) ==
  [pc |-> "running", start |-> start, goal |-> goal, mode |-> mode,
   diagonal |-> diagonal,
   priority_queue |-> {<<0, 0, start>>},
   came_from |-> (start :> NonePos), g_score |-> (start :> 0),
   counter |-> 0, popped |-> <<>>, frontier |-> {},
   result |-> [found |-> FALSE, path |-> <<>>, total_cost |-> 0]]

\* One pass of the while loop that also marks the popped cell on the grid.
pathfind_step_marking(g, s) ==
  LET current == heappop(s.priority_queue)[3] IN
  [grid |-> IF s.priority_queue # {} /\ grid_in_bounds(g, current)
            THEN [g EXCEPT ![current[1] + 1][current[2] + 1] = "visited"]
            ELSE g,
   pf |-> IF s.priority_queue = {} \/ current = s.goal
          THEN [s EXCEPT !.pc = "done"]
          ELSE relax(g, [s EXCEPT !.priority_queue =
                                     heap_rest(s.priority_queue,
                                               heappop(s.priority_queue))],
                     current, get_neighbors(g, s.diagonal, current), 1)]

\* One pass of the while loop of pathfind: the grid (which it only reads)
\* and the state of the search after it.
pathfind_step(g, s) ==
  IF s.priority_queue = {}
  THEN [grid |-> g,
        pf |-> [s EXCEPT !.pc = "done", !.popped = <<>>, !.frontier = {}]]
  ELSE
  LET entry == heappop(s.priority_queue)
      current == entry[3]
      t == [s EXCEPT !.priority_queue = heap_rest(s.priority_queue, entry),
                     !.popped = entry,
                     !.frontier = s.priority_queue]
  IN
  IF current = s.goal
  THEN [grid |-> g,
        pf |-> [t EXCEPT !.pc = "done",
                         !.result = [found |-> TRUE,
                                     path |-> reconstruct(s.came_from, current),
                                     total_cost |-> s.g_score[current]]]]
  ELSE [grid |-> g,
        pf |-> relax(g, t, current,
                     get_neighbors(g, s.diagonal, current), 1)]

\* Positions a caller passes: every cell and one position outside the grid.
PathPositions ==
  {<<r, c>> : r \in 0..(PathRows - 1), c \in 0..(PathCols - 1)}
    \cup {<<-1, 0>>}
PathModes == {"none", "walls", "walkable"}

\* No search pushes more entries than this; it stops a search that would
\* never end.
MaxPushes == 8 * Len(board) * Len(board[1]) + 8

PathInit ==
  /\ board \in PathGrids
  /\ position = [o \in AllObjs |-> Unplaced]
  /\ owner = [o \in AllObjs |-> FALSE]
  /\ last = Idle
  /\ pre = Snapshot(board, position, owner)
  /\ text = NoText
  /\ saved = NoText
  /\ pf = NoSearch
  /\ returned = NoValue

\* grid.pathfind(start, goal, ...) is called.
PathStart(start, goal, mode) ==
  /\ last = Idle
  /\ pf.pc # "running"
  /\ pf' = pathfind_start(start, goal, mode, FALSE)
  /\ pre' = Snapshot(board, position, owner)
  /\ UNCHANGED <<board, position, owner, last, text, saved, returned>>

\* The next pass of the loop; the pass that ends the loop returns.
PathStep ==
  /\ pf.pc = "running"
  /\ pf.counter <= MaxPushes
  /\ LET r == pathfind_step(board, pf) IN
     /\ board' = r.grid
     /\ pf' = r.pf
     /\ last' = IF r.pf.pc = "done"
                THEN Call("pathfind", EmptyObj, pf.start, pf.mode,
                          IF r.pf.result.found THEN "path" ELSE "None")
                ELSE last
  /\ UNCHANGED <<position, owner, pre, text, saved, returned>>

\* The caller takes the result; the locals of the call are gone.
PathReturn ==
  /\ last # Idle
  /\ last' = Idle
  /\ pf' = NoSearch
  /\ pre' = Snapshot(board, position, owner)
  /\ UNCHANGED <<board, position, owner, text, saved, returned>>

PathNext ==
  \/ \E start \in PathPositions, goal \in PathPositions, mode \in PathModes :
       PathStart(start, goal, mode)
  \/ PathStep
  \/ PathReturn

SpecPath == PathInit /\ [][PathNext]_vars

\* The grids with at most one GameObject.
LiveGrids ==
  {g \in PathGrids :
     Cardinality({rc \in (1..PathRows) \X (1..PathCols) :
                    g[rc[1]][rc[2]] = GameObject}) <= 1}

LiveInit ==
  /\ board \in LiveGrids
  /\ position = [o \in AllObjs |-> Unplaced]
  /\ owner = [o \in AllObjs |-> FALSE]
  /\ last = Idle
  /\ pre = Snapshot(board, position, owner)
  /\ text = NoText
  /\ saved = NoText
  /\ pf = NoSearch
  /\ returned = NoValue

\* The loop keeps running until it ends: a pass that can be made is made.
SpecPathLive == LiveInit /\ [][PathNext]_vars /\ WF_vars(PathStep)

\* Breadth-first search: the least number of steps from a cell of the
\* frontier to goal through traversable cells, d steps being taken already;
\* -1 if there is no path.
RECURSIVE BFS(_, _, _, _, _, _, _)
BFS(g, mode, dirs, goal, frontier, visited, d) ==
  IF goal \in frontier THEN d
  ELSE LET next == {n \in UNION {{Add(p, dirs[i]) : i \in 1..Len(dirs)} :
                                  p \in frontier} :
                      /\ grid_in_bounds(g, n)
                      /\ can_traverse(mode, grid_getitem(g, n))
                      /\ n \notin visited}
       IN IF next = {} THEN -1
          ELSE BFS(g, mode, dirs, goal, next, visited \cup next, d + 1)

ShortestLength ==
  BFS(board, pf.mode, directions(pf.diagonal), pf.goal, {pf.start},
      {pf.start}, 0)

\* p is a walk on the grid from start to goal: each step goes to one of the
\* four neighbours, inside the grid and traversable.
IsWalk(g, mode, p, start, goal) ==
  /\ Len(p) >= 1
  /\ p[1] = start
  /\ p[Len(p)] = goal
  /\ \A i \in 2..Len(p) :
       /\ \E k \in 1..Len(PathDirections) :
            p[i] = Add(p[i - 1], PathDirections[k])
       /\ grid_in_bounds(g, p[i])
       /\ can_traverse(mode, grid_getitem(g, p[i]))

\* C24: A* is optimal.  When pathfind has returned, it found a path exactly
\* if breadth-first search finds one, and the path it returns is a walk
\* from start to goal whose number of steps and total_cost are the
\* breadth-first shortest length.
C24_PathIsShortest ==
  pf.pc = "done" =>
    /\ pf.result.found <=> ShortestLength >= 0
    /\ pf.result.found =>
         /\ IsWalk(board, pf.mode, pf.result.path, pf.start, pf.goal)
         /\ Len(pf.result.path) - 1 = ShortestLength
         /\ pf.result.total_cost = ShortestLength

\* C24's case: a path that has to go round a GameObject was found.
C24_Witness ==
  /\ pf.pc = "done"
  /\ pf.result.found
  /\ pf.mode # "none"
  /\ Len(pf.result.path) - 1 > manhattan_distance(pf.start, pf.goal)

\* C25: pathfind only reads.  While it runs and when it has returned, the
\* grid and every position are as they were when it was called.
C25_PathfindReadsOnly ==
  pf.pc \in {"running", "done"} =>
    /\ board = pre.board
    /\ position = pre.position
    /\ owner = pre.owner

\* C25's case: a search that expanded cells and found nothing has returned.
C25_Witness ==
  /\ pf.pc = "done"
  /\ ~pf.result.found
  /\ pf.counter >= 2
  /\ \E r \in DOMAIN board : \E c \in DOMAIN board[r] :
       board[r][c] = GameObject

\* The search pathfind(start, goal) run to its end from its first state.
RECURSIVE RunToEnd(_, _)
RunToEnd(g, s) ==
  IF s.pc = "done" THEN s.result ELSE RunToEnd(g, pathfind_step(g, s).pf)

\* C26: pathfind is deterministic.  The entries of the queue carry pairwise
\* different counters, none above the counter; the entry a pass pops has
\* the least f_score of the queue and, among those, the least counter; and
\* the result is the one a fresh run on the same grid with the same
\* arguments gives.
C26_Deterministic ==
  pf.pc \in {"running", "done"} =>
    /\ \A a \in pf.priority_queue : \A b \in pf.priority_queue :
         a # b => a[2] # b[2]
    /\ \A a \in pf.priority_queue : a[2] <= pf.counter
    /\ pf.popped # <<>> =>
         \A o \in pf.frontier :
           \/ pf.popped[1] < o[1]
           \/ pf.popped[1] = o[1] /\ pf.popped[2] <= o[2]
    /\ pf.pc = "done" =>
         pf.result
           = RunToEnd(board,
                      pathfind_start(pf.start, pf.goal, pf.mode, pf.diagonal))

\* C26's case: a pass has popped one of several entries with the same
\* f_score.
C26_Witness ==
  /\ pf.pc \in {"running", "done"}
  /\ pf.popped # <<>>
  /\ \E o \in pf.frontier : o # pf.popped /\ o[1] = pf.popped[1]

\* C27: pathfind terminates.  A search that is running eventually returns,
\* with a path or with none.
C27_PathfindTerminates == (pf.pc = "running") ~> (pf.pc = "done")

\* C27's case: a search has exhausted its queue and returned none.
C27_Witness ==
  /\ pf.pc = "done"
  /\ ~pf.result.found
  /\ pf.priority_queue = {}
  /\ pf.counter >= 1

(***************************************************************************)
(* Direction of both revisions (grib.py and core/types.py) and its         *)
(* arithmetic with coordinates, checked under SpecDir.  A Python value is   *)
(* a record with its type, the module defining that type, the member name  *)
(* and the items that indexing and len() see.                              *)
(***************************************************************************)
DirModules == {"grib.grib", "grib.core.types"}
DirNames ==
  {"NORTH", "SOUTH", "EAST", "WEST", "UP", "DOWN", "LEFT", "RIGHT",
   "NORTHEAST", "NORTHWEST", "SOUTHEAST", "SOUTHWEST"}

\* Direction.<name>.value as the class body of the module assigns it.
DirectionValue(module, name) ==
  CASE name = "NORTH" ->
         IF module = "grib.core.types" THEN <<0, -11>> ELSE <<0, -1>>
    [] name = "SOUTH" -> <<0, 1>>
    [] name = "EAST" -> <<1, 0>>
    [] name = "WEST" -> <<-1, 0>>
    [] name = "UP" -> <<0, -1>>
    [] name = "DOWN" -> <<0, 1>>
    [] name = "LEFT" -> <<-1, 0>>
    [] name = "RIGHT" -> <<1, 0>>
    [] name = "NORTHEAST" -> <<1, -1>>
    [] name = "NORTHWEST" -> <<-1, -1>>
    [] name = "SOUTHEAST" -> <<1, 1>>
    [] name = "SOUTHWEST" -> <<-1, 1>>

Tuple(items) ==
  [type |-> "tuple", module |-> "builtins", name |-> "", items |-> items]
Member(module, name) ==
  [type |-> "Direction", module |-> module, name |-> name,
   items |-> DirectionValue(module, name)]
NotImplemented ==
  [type |-> "NotImplementedType", module |-> "builtins", name |-> "",
   items |-> <<>>]
TypeError ==
  [type |-> "TypeError", module |-> "builtins", name |-> "", items |-> <<>>]

\* isinstance(other, (tuple, Direction)) inside the class of `self`.
IsTupleOrDirection(self, other) ==
  \/ other.type = "tuple"
  \/ other.type = "Direction" /\ other.module = self.module

\* Direction.__add__.
Direction_add(self, other) ==
  IF IsTupleOrDirection(self, other) /\ Len(other.items) = 2
  THEN Tuple(<<other.items[1] + self.items[1],
               other.items[2] + self.items[2]>>)
  ELSE NotImplemented

\* tuple + direction left to the concatenation of tuples.
Direction_radd_concat(self, other) ==
  Tuple(other.items \o self.items)

\* Direction.__radd__.
Direction_radd(self, other) == Direction_add(self, other)

\* a + b as Python evaluates it: a.__add__(b), then the reflected method of
\* a right operand of another type, then the concatenation of two tuples.
PyAdd(a, b) ==
  LET SameType == a.type = b.type /\ a.module = b.module
      Forward == IF a.type = "Direction" THEN Direction_add(a, b)
                 ELSE NotImplemented
      Reflected == IF b.type = "Direction" /\ ~SameType
                   THEN Direction_radd(b, a)
                   ELSE NotImplemented
  IN IF Forward # NotImplemented THEN Forward
     ELSE IF Reflected # NotImplemented THEN Reflected
     ELSE IF a.type = "tuple" /\ b.type = "tuple"
          THEN Tuple(a.items \o b.items)
          ELSE TypeError

DirCoordMax == 2
DirCoords == (-1..DirCoordMax) \X (-1..DirCoordMax)
Members == {Member(module, name) : module \in DirModules, name \in DirNames}
DirOperands ==
  {Tuple(p) : p \in DirCoords} \cup Members \cup {Tuple(<<0, 0, 0>>)}

DirInit ==
  /\ board = NewBoard(1, 1)
  /\ position = [o \in AllObjs |-> Unplaced]
  /\ owner = [o \in AllObjs |-> FALSE]
  /\ last = Idle
  /\ pre = Snapshot(board, position, owner)
  /\ text = NoText
  /\ saved = NoText
  /\ pf = NoSearch
  /\ returned = NoValue

\* The expression a + b.
DirAdd(a, b) ==
  /\ last = Idle
  /\ LET r == PyAdd(a, b) IN
       /\ returned' = [left |-> a, right |-> b, value |-> r]
       /\ last' = Call("add", EmptyObj, NoArg, "FAIL",
                       IF r = TypeError THEN "TypeError" ELSE "ok")
  /\ UNCHANGED <<board, position, owner, pre, text, saved, pf>>

\* The expression Direction.<name>.value.
DirValue(d) ==
  /\ last = Idle
  /\ returned' = [left |-> d, right |-> d, value |-> Tuple(d.items)]
  /\ last' = Call("value", EmptyObj, NoArg, "FAIL", "ok")
  /\ UNCHANGED <<board, position, owner, pre, text, saved, pf>>

DirReturn ==
  /\ last # Idle
  /\ last' = Idle
  /\ returned' = NoValue
  /\ UNCHANGED <<board, position, owner, pre, text, saved, pf>>

DirNext ==
  \/ \E a \in DirOperands, b \in DirOperands : DirAdd(a, b)
  \/ \E d \in Members : DirValue(d)
  \/ DirReturn

SpecDir == DirInit /\ [][DirNext]_vars

\* The offsets the eight compass names and the four aliases stand for.
UnitOffset(name) ==
  CASE name \in {"NORTH", "UP"} -> <<0, -1>>
    [] name \in {"SOUTH", "DOWN"} -> <<0, 1>>
    [] name \in {"EAST", "RIGHT"} -> <<1, 0>>
    [] name \in {"WEST", "LEFT"} -> <<-1, 0>>
    [] name = "NORTHEAST" -> <<1, -1>>
    [] name = "NORTHWEST" -> <<-1, -1>>
    [] name = "SOUTHEAST" -> <<1, 1>>
    [] name = "SOUTHWEST" -> <<-1, 1>>

AliasOf(name) ==
  CASE name = "UP" -> "NORTH"
    [] name = "DOWN" -> "SOUTH"
    [] name = "LEFT" -> "WEST"
    [] name = "RIGHT" -> "EAST"
    [] OTHER -> name

\* C28: in every module that defines Direction, the value of every member
\* is its unit offset (NORTH (0,-1), SOUTH (0,1), EAST (1,0), WEST (-1,0),
\* the diagonals with both components in {-1,1}), and an alias has the value
\* of the member it stands for.
C28_UnitOffsets ==
  last.op = "value" =>
    /\ returned.value = Tuple(UnitOffset(returned.left.name))
    /\ returned.value.items
         = DirectionValue(returned.left.module, AliasOf(returned.left.name))

\* C29: for a coordinate p = (x, y) and a Direction d with offset (dx, dy),
\* p + d and d + p are both the plain tuple (x + dx, y + dy).
C29_AdditionCommutes ==
  last.op = "add" =>
    \A p \in DirCoords, d \in Members :
      {returned.left, returned.right} = {Tuple(p), d} =>
        /\ returned.value = Tuple(<<p[1] + d.items[1], p[2] + d.items[2]>>)
        /\ returned.value = PyAdd(returned.right, returned.left)
        /\ last.ret = "ok"

\* (2, 2) + Direction.NORTHEAST has been evaluated, the tuple on the left.
C29_Witness ==
  /\ last.op = "add"
  /\ returned.left = Tuple(<<2, 2>>)
  /\ returned.right = Member("grib.grib", "NORTHEAST")
  /\ returned.value = Tuple(<<3, 1>>)

(***************************************************************************)
(* Printing and exporting a board of the core revision, checked under      *)
(* SpecShow.  Board.__setitem__ refuses a multi-celled occupant, so the     *)
(* cells that reference one are those load_state builds from its glyph.    *)
(***************************************************************************)
ShowRows == 2
ShowCols == 3
ShowGlyphs == {"+", "#"}
ShowObjs == {"G", "W1"}

\* Shape.pattern of an occupant, a list of rows of glyphs.
Pattern(o) ==
  IF Kind(o) = "BigBox"
  THEN <<<<"+", "-", "+">>, <<"|", " ", "|">>, <<"+", "-", "+">>>>
  ELSE <<<<display_char(o)>>>>

\* BoardObject.x and BoardObject.y: both return position[0].
BoardObject_x(posn, o) == X(posn[o])
BoardObject_y(posn, o) == X(posn[o])

\* The glyph Board.__str__ appends for the cell in row y, column x (no
\* regions are defined): pattern[rel[1]][rel[0]] with Python's indexing.
str_cell(b, posn, x, y) ==
  LET obj == b[y + 1][x + 1] IN
  IF is_single_celled(obj) THEN display_char(obj)
  ELSE IF isEmpty(obj) THEN "."
  ELSE LET rel == <<x - BoardObject_x(posn, obj), y - BoardObject_y(posn, obj)>>
           r == PyIndex(Len(Pattern(obj)), rel[2])
       IN IF r = 0 THEN IndexError
          ELSE LET c == PyIndex(Len(Pattern(obj)[r]), rel[1]) IN
               IF c = 0 THEN IndexError ELSE Pattern(obj)[r][c]

\* Board.__str__: the rows of glyphs joined by newlines, or IndexError.
board_str(b, posn) ==
  LET rows == [r \in 1..Len(b) |->
                 [c \in 1..Len(b[r]) |-> str_cell(b, posn, c - 1, r - 1)]]
  IN IF \E r \in DOMAIN rows : \E c \in DOMAIN rows[r] :
          rows[r][c] = IndexError
     THEN [rows |-> <<>>, text |-> <<>>, exc |-> IndexError]
     ELSE [rows |-> rows, text |-> JoinLines(rows), exc |-> "ok"]

ShowLines == UNION {[1..k -> ShowGlyphs] : k \in 0..ShowCols}
ShowTexts ==
  {JoinLines(ls) : ls \in UNION {[1..n -> ShowLines] : n \in 1..ShowRows}}

ShowInit ==
  /\ board = NewBoard(1, 1)
  /\ position = [o \in ShowObjs |-> Unplaced]
  /\ owner = [o \in ShowObjs |-> FALSE]
  /\ last = Idle
  /\ pre = Snapshot(board, position, owner)
  /\ text = NoText
  /\ saved = NoText
  /\ pf = NoSearch
  /\ returned = NoValue

\* board.load_state(t): every cell a fresh instance at position (-1, -1).
ShowLoad(t) ==
  /\ last = Idle
  /\ board' = core_load_state(t).board
  /\ position' = [o \in ShowObjs |-> Unplaced]
  /\ owner' = [o \in ShowObjs |-> OnBoard(board', o) # {}]
  /\ last' = Call("load_state", EmptyObj, NoArg, "FAIL",
                  core_load_state(t).ret)
  /\ pre' = Snapshot(board, position, owner)
  /\ text' = t
  /\ UNCHANGED <<saved, pf, returned>>

\* str(board)
ShowStr ==
  /\ last = Idle
  /\ returned' = board_str(board, position)
  /\ last' = Call("str", EmptyObj, NoArg, "FAIL",
                  board_str(board, position).exc)
  /\ pre' = Snapshot(board, position, owner)
  /\ UNCHANGED <<board, position, owner, text, saved, pf>>

ShowReturn ==
  /\ last # Idle
  /\ last' = Idle
  /\ saved' = NoText
  /\ returned' = NoValue
  /\ pre' = Snapshot(board, position, owner)
  /\ UNCHANGED <<board, position, owner, text, pf>>

ShowNext ==
  \/ \E t \in ShowTexts : ShowLoad(t)
  \/ ShowStr
  \/ SaveState
  \/ ShowReturn

SpecShow == ShowInit /\ [][ShowNext]_vars

\* The rows of glyphs the last call produced.
Shown == IF last.op = "str" THEN returned.rows ELSE saved

\* C30: str(board) and save_state() show, in every cell (x, y) that a
\* multi-celled occupant with anchor (ax, ay) covers, the glyph
\* pattern[y - ay][x - ax] of its shape.
C30_ShowsRelativeGlyph ==
  (last.op \in {"str", "save_state"} /\ last.ret # IndexError) =>
    \A r \in DOMAIN board : \A c \in DOMAIN board[r] :
      (/\ ~is_single_celled(board[r][c])
       /\ <<c - 1, r - 1>> \in Footprint(board[r][c], position[board[r][c]])) =>
        Shown[r][c] = Pattern(board[r][c])[r - Y(position[board[r][c]])]
                                          [c - X(position[board[r][c]])]

(***************************************************************************)
(* Board.get_line of the core revision, one pass of its loop per step      *)
(* (SpecGetLine).  While a call runs, returned holds its locals: the end   *)
(* points, the blocking kinds, x, y, err, the occupants collected and the   *)
(* cells they were read from.                                              *)
(***************************************************************************)
GetLineWidth == 3
GetLineHeight == 2
NoLine ==
  [pc |-> "idle", start_pos |-> NoArg, end_pos |-> NoArg, block_types |-> {},
   x |-> 0, y |-> 0, err |-> 0, objects |-> <<>>, cells |-> <<>>]

Abs(n) == IF n < 0 THEN -n ELSE n

\* get_line up to its loop.
get_line_start(start_pos, end_pos, block_types) ==
  [pc |-> "running", start_pos |-> start_pos, end_pos |-> end_pos,
   block_types |-> block_types,
   x |-> X(start_pos), y |-> Y(start_pos),
   err |-> Abs(X(end_pos) - X(start_pos)) - Abs(Y(end_pos) - Y(start_pos)),
   objects |-> <<>>, cells |-> <<>>]

\* objects.append(self[x, y]), with the cell the occupant was read from.
line_collect(b, s) ==
  [s EXCEPT !.objects = Append(@, getitem(b, <<s.x, s.y>>)),
            !.cells = Append(@, <<s.x, s.y>>)]

\* The update of err, x and y at the end of a pass.
line_advance(s) ==
  LET dx == Abs(X(s.end_pos) - X(s.start_pos))
      dy == Abs(Y(s.end_pos) - Y(s.start_pos))
      sx == IF X(s.start_pos) < X(s.end_pos) THEN 1 ELSE -1
      sy == IF Y(s.start_pos) < Y(s.end_pos) THEN 1 ELSE -1
      e2 == 2 * s.err
  IN [s EXCEPT !.err = s.err - (IF e2 > -dy THEN dy ELSE 0)
                             + (IF e2 < dx THEN dx ELSE 0),
               !.x = IF e2 > -dy THEN s.x + sx ELSE s.x,
               !.y = IF e2 < dx THEN s.y + sy ELSE s.y]

\* A pass that leaves the loop at a blocking occupant without collecting it.
get_line_step_excluding(b, s) ==
  LET here == <<s.x, s.y>> IN
  IF ~in_bounds(b, here) THEN [s EXCEPT !.pc = "done"]
  ELSE IF Kind(getitem(b, here)) \in s.block_types
  THEN [s EXCEPT !.pc = "done"]
  ELSE IF here = s.end_pos THEN [line_collect(b, s) EXCEPT !.pc = "done"]
  ELSE line_advance(line_collect(b, s))

\* One pass of "while True" in get_line.
get_line_step(b, s) ==
  LET here == <<s.x, s.y>> IN
  IF ~in_bounds(b, here) THEN [s EXCEPT !.pc = "done"]
  ELSE IF getitem(b, here) = IndexError THEN [s EXCEPT !.pc = IndexError]
  ELSE IF Kind(getitem(b, here)) \in s.block_types
  THEN [line_collect(b, s) EXCEPT !.pc = "done"]
  ELSE IF here = s.end_pos THEN [line_collect(b, s) EXCEPT !.pc = "done"]
  ELSE line_advance(line_collect(b, s))

\* The boards a caller queries: every cell Empty but for at most one Wall
\* and at most one Box, both in the top row.
GetLineCells ==
  {<<x, y>> : x \in 0..(GetLineWidth - 1), y \in 0..(GetLineHeight - 1)}
GetLineBoards ==
  {b \in [1..GetLineHeight -> [1..GetLineWidth -> {EmptyObj, "W1", "B1"}]] :
     /\ Cardinality(OnBoard(b, "W1")) <= 1
     /\ Cardinality(OnBoard(b, "B1")) <= 1
     /\ \A r \in 2..GetLineHeight : \A c \in 1..GetLineWidth :
          b[r][c] = EmptyObj}
GetLinePositions == GetLineCells \cup {<<-1, 0>>, <<GetLineWidth, 1>>}
GetLineBlocks == {{}, {"Wall"}, {"Wall", "Box"}}

GetLineInit ==
  /\ board \in GetLineBoards
  /\ position = [o \in {"W1", "B1"} |-> Unplaced]
  /\ owner = [o \in {"W1", "B1"} |-> OnBoard(board, o) # {}]
  /\ last = Idle
  /\ pre = Snapshot(board, position, owner)
  /\ text = NoText
  /\ saved = NoText
  /\ pf = NoSearch
  /\ returned = NoLine

\* board.get_line(start_pos, end_pos, block_types) is entered.
GetLineStart(start_pos, end_pos, block_types) ==
  /\ last = Idle
  /\ returned.pc = "idle"
  /\ returned' = get_line_start(start_pos, end_pos, block_types)
  /\ pre' = Snapshot(board, position, owner)
  /\ UNCHANGED <<board, position, owner, last, text, saved, pf>>

\* One pass of the loop; the pass that leaves it returns the list.
GetLineStep ==
  /\ returned.pc = "running"
  /\ returned' = get_line_step(board, returned)
  /\ last' = IF returned'.pc = "running" THEN last
             ELSE Call("get_line", EmptyObj, returned.start_pos, "FAIL",
                       IF returned'.pc = "done" THEN "list" ELSE IndexError)
  /\ UNCHANGED <<board, position, owner, pre, text, saved, pf>>

GetLineReturn ==
  /\ last # Idle
  /\ last' = Idle
  /\ returned' = NoLine
  /\ pre' = Snapshot(board, position, owner)
  /\ UNCHANGED <<board, position, owner, text, saved, pf>>

GetLineNext ==
  \/ \E start_pos \in GetLinePositions, end_pos \in GetLinePositions,
        block_types \in GetLineBlocks :
       GetLineStart(start_pos, end_pos, block_types)
  \/ GetLineStep
  \/ GetLineReturn

SpecGetLine ==
  GetLineInit /\ [][GetLineNext]_vars /\ WF_vars(GetLineStep)

(***************************************************************************)
(* Grid.pathfind with diagonal=True: eight directions and, by default, the *)
(* Euclidean distance as the heuristic.                                    *)
(***************************************************************************)

DiagRows == 5
DiagCols == 4

\* The cells of a grid that hold a GameObject.
objects_of(g) ==
  {rc \in (1..Len(g)) \X (1..Len(g[1])) : g[rc[1]][rc[2]] = GameObject}

\* Grids with no GameObject, with one, or with two side by side in a row.
DiagGrids ==
  {g \in [1..DiagRows -> [1..DiagCols -> {GridDefault, GameObject}]] :
     /\ Cardinality(objects_of(g)) <= 2
     /\ \A a \in objects_of(g), b \in objects_of(g) :
          a[1] = b[1] /\ a[2] - b[2] \in {-1, 0, 1}}

\* Starts in the top row, goals anywhere on the grid.
DiagStarts == {<<0, c>> : c \in 0..(DiagCols - 1)}
DiagGoals == {<<r, c>> : r \in 0..(DiagRows - 1), c \in 0..(DiagCols - 1)}

DiagInit ==
  /\ board \in DiagGrids
  /\ position = [o \in AllObjs |-> Unplaced]
  /\ owner = [o \in AllObjs |-> FALSE]
  /\ last = Idle
  /\ pre = Snapshot(board, position, owner)
  /\ text = NoText
  /\ saved = NoText
  /\ pf = NoSearch
  /\ returned = NoValue

\* grid.pathfind(start, goal, ..., diagonal=True) is called.
PathStartDiagonal(start, goal, mode) ==
  /\ last = Idle
  /\ pf.pc # "running"
  /\ pf' = pathfind_start(start, goal, mode, TRUE)
  /\ pre' = Snapshot(board, position, owner)
  /\ UNCHANGED <<board, position, owner, last, text, saved, returned>>

DiagNext ==
  \/ \E start \in DiagStarts, goal \in DiagGoals, mode \in {"none", "walls"} :
       PathStartDiagonal(start, goal, mode)
  \/ PathStep
  \/ PathReturn

SpecPathDiag == DiagInit /\ [][DiagNext]_vars

(***************************************************************************)
(* Walls in the core revision (SpecWall): a caller places a Player and a   *)
(* Wall and then moves them with move and move_to.                         *)
(***************************************************************************)

\* Two writes one after the other; the second is not made when the first
\* raises.
write_two(b, pos1, v1, pos2, v2) ==
  LET w == setitem(b, pos1, v1) IN
  IF w.exc = IndexError THEN w ELSE setitem(w.board, pos2, v2)

\* BoardObject.move_to of the core revision: the board it leaves and how it
\* ends.  It never assigns self.position.
core_move_to(b, posn, own, o, new_pos, existing) ==
  IF ~core_can_move_to(b, own, o, new_pos, existing)
  THEN [board |-> b, ret |-> "None"]
  ELSE
  LET w == CASE existing = "REPLACE" ->
                  write_two(b, new_pos, o, posn[o], EmptyObj)
             [] existing = "SWAP" ->
                  write_two(b, new_pos, getitem(b, posn[o]),
                            posn[o], getitem(b, new_pos))
             [] existing = "FAIL" ->
                  write_two(b, posn[o], EmptyObj, new_pos, o)
             [] OTHER -> [board |-> b, exc |-> "ValueError"]
  IN [board |-> w.board,
      ret |-> IF w.exc \in {IndexError, "ValueError"} THEN w.exc ELSE "None"]

\* o.move_to(new_pos, existing)
CoreMoveTo(o, new_pos, existing) ==
  /\ last = Idle
  /\ LET r == core_move_to(board, position, owner, o, new_pos, existing) IN
     /\ board' = r.board
     /\ last' = Call("move_to", o, new_pos, existing, r.ret)
  /\ pre' = Snapshot(board, position, owner)
  /\ UNCHANGED io
  /\ UNCHANGED <<position, owner>>

WallObjs == {"P", "W1"}

\* The cells a caller names when placing and in move_to: the corner of the
\* board next to the origin.
WallCells == {<<x, y>> : x \in 0..1, y \in 0..1}

\* The caller places the two occupants, moves them, and calls move_to on an
\* occupant as long as no more than one cell references it.
NextWall ==
  \/ \E o \in WallObjs, pos \in WallCells : Place(o, pos)
  \/ \E o \in WallObjs, d \in CoreDirections, e \in Policies :
       CoreMove(o, d, e)
  \/ \E o \in WallObjs, pos \in WallCells, e \in Policies :
       Cardinality(OnBoard(board, o)) <= 1 /\ CoreMoveTo(o, pos, e)
  \/ Return

SpecWall == Init /\ [][NextWall]_vars

(***************************************************************************)
(* GameObjects on a Grid (SpecGame): a caller puts three GameObjects on a  *)
(* grid with grid[row, col] = obj and moves them with move (which move_up, *)
(* move_down, move_left and move_right call) and move_to.  board is        *)
(* Grid._grid, position the fields _row and _col of each object and owner  *)
(* whether its _grid is set.                                               *)
(***************************************************************************)

\* GameObject(), GameObject(movable=False) and GameObject(solid=True).
GameObjs == {"Mover", "Fixed", "Solid"}
game_movable(o) == o # "Fixed"
game_solid(o) == o = "Solid"

\* The cells of the grid that reference o, as (row, col).
grid_cells_of(g, o) ==
  {rc \in (0..(Len(g) - 1)) \X (0..(Len(g[1]) - 1)) :
     g[rc[1] + 1][rc[2] + 1] = o}

\* Grid.__setitem__ for a cell in bounds and a GameObject: on_remove of the
\* GameObject the cell held, then the position and grid of the value.
grid_setitem(g, posn, own, pos, value) ==
  LET old == grid_getitem(g, pos)
      posn1 == IF old \in GameObjs THEN [posn EXCEPT ![old] = Unplaced]
               ELSE posn
      own1 == IF old \in GameObjs THEN [own EXCEPT ![old] = FALSE] ELSE own
  IN [board |-> [g EXCEPT ![pos[1] + 1][pos[2] + 1] = value],
      position |-> [posn1 EXCEPT ![value] = pos],
      owner |-> [own1 EXCEPT ![value] = TRUE]]

\* GameObject.can_move_to
game_can_move_to(g, own, o, pos) ==
  IF ~own[o] \/ ~grid_in_bounds(g, pos) THEN FALSE
  ELSE LET target == grid_getitem(g, pos) IN
       ~(target \in GameObjs /\ game_solid(target))

\* Grid.move_object
move_object(g, posn, own, o, pos) ==
  IF ~grid_in_bounds(g, pos)
  THEN [board |-> g, position |-> posn, ret |-> "False"]
  ELSE IF grid_getitem(g, pos) # o /\ ~game_can_move_to(g, own, o, pos)
  THEN [board |-> g, position |-> posn, ret |-> "False"]
  ELSE [board |-> [[g EXCEPT ![posn[o][1] + 1][posn[o][2] + 1] = GridDefault]
                      EXCEPT ![pos[1] + 1][pos[2] + 1] = o],
        position |-> [posn EXCEPT ![o] = pos],
        ret |-> "True"]

\* GameObject.move
game_move(g, posn, own, o, offset) ==
  IF ~own[o] THEN [board |-> g, position |-> posn, ret |-> "False"]
  ELSE move_object(g, posn, own, o, Add(posn[o], offset))

\* GameObject.move_to
game_move_to(g, posn, own, o, pos) ==
  IF ~own[o] \/ ~game_movable(o)
  THEN [board |-> g, position |-> posn, ret |-> "False"]
  ELSE move_object(g, posn, own, o, pos)

\* The offsets of move_up, move_down, move_left and move_right.
GameOffsets == {<<-1, 0>>, <<1, 0>>, <<0, -1>>, <<0, 1>>}

GameCells == {<<r, c>> : r \in 0..(PathRows - 1), c \in 0..(PathCols - 1)}

GameInit ==
  /\ board = [r \in 1..PathRows |-> [c \in 1..PathCols |-> GridDefault]]
  /\ position = [o \in GameObjs |-> Unplaced]
  /\ owner = [o \in GameObjs |-> FALSE]
  /\ last = Idle
  /\ pre = Snapshot(board, position, owner)
  /\ text = NoText
  /\ saved = NoText
  /\ pf = NoSearch
  /\ returned = NoValue

\* grid[pos] = o for an object that is on no grid.
GameSet(o, pos) ==
  /\ last = Idle
  /\ ~owner[o]
  /\ LET r == grid_setitem(board, position, owner, pos, o) IN
     /\ board' = r.board
     /\ position' = r.position
     /\ owner' = r.owner
  /\ last' = Call("set", o, pos, "FAIL", "None")
  /\ pre' = Snapshot(board, position, owner)
  /\ UNCHANGED io

\* o.move(offset)
GameMove(o, offset) ==
  /\ last = Idle
  /\ LET r == game_move(board, position, owner, o, offset) IN
     /\ board' = r.board
     /\ position' = r.position
     /\ last' = Call("move", o, offset, "FAIL", r.ret)
  /\ pre' = Snapshot(board, position, owner)
  /\ UNCHANGED io
  /\ UNCHANGED owner

\* o.move_to(pos)
GameMoveTo(o, pos) ==
  /\ last = Idle
  /\ LET r == game_move_to(board, position, owner, o, pos) IN
     /\ board' = r.board
     /\ position' = r.position
     /\ last' = Call("move_to", o, pos, "FAIL", r.ret)
  /\ pre' = Snapshot(board, position, owner)
  /\ UNCHANGED io
  /\ UNCHANGED owner

GameNext ==
  \/ \E o \in GameObjs, pos \in GameCells : GameSet(o, pos)
  \/ \E o \in GameObjs, offset \in GameOffsets : GameMove(o, offset)
  \/ \E o \in GameObjs, pos \in GameCells \cup {<<-1, 0>>} : GameMoveTo(o, pos)
  \/ Return

SpecGame == GameInit /\ [][GameNext]_vars

(***************************************************************************)
(* The claims about both revisions as a whole.                             *)
(***************************************************************************)
\* C31: in grib.py an occupant that no cell references reports the position
\* (-1, -1), and an occupant that a cell references never reports it.
C31_SentinelIffOffBoard ==
  \A o \in GribObjs :
    (OnBoard(board, o) = {}) <=> (grib_position(board, owner, o) = Unplaced)

\* C32: core indexing follows one (x, y) = (column, row) convention.  For an
\* in-bounds pos and a single-celled occupant, b[pos] = o is accepted, b[pos]
\* is then o and no other cell has changed; and in_bounds(pos) holds exactly
\* for the positions that b[pos] and b[pos] = o accept.
C32_OneIndexConvention ==
  /\ (last.op = "set" /\ is_single_celled(last.obj)) =>
       /\ in_bounds(pre.board, last.pos) <=> last.ret # IndexError
       /\ in_bounds(pre.board, last.pos) =>
            /\ getitem(board, last.pos) = last.obj
            /\ \A q \in Cells \ {last.pos} :
                 getitem(board, q) = getitem(pre.board, q)
  /\ last.op = "get" =>
       (in_bounds(board, last.pos) <=> last.ret # IndexError)

\* C33: in grib.py Swap and Push are exclusive.  A move resolves a push
\* chain only under the policy PUSH; a SWAP move onto a pushable occupant
\* exchanges mover and target and changes no other cell; and a cell into
\* which a PUSH move displaces an occupant held the mover, another displaced
\* occupant, Empty or a replaceable occupant.
C33_SwapPushExclusive ==
  last.op = "move" =>
    LET ev == grib_move(pre.board, pre.owner, last.obj, last.pos,
                        last.pol).events
        from == grib_position(pre.board, pre.owner, last.obj)
        to == Add(from, last.pos)
        cells == {<<x, y>> : x \in 0..(width(pre.board) - 1),
                             y \in 0..(height(pre.board) - 1)}
        displaced(c) == /\ c \notin {EmptyObj, last.obj}
                        /\ OnBoard(board, c) # {}
                        /\ OnBoard(board, c) # OnBoard(pre.board, c)
    IN
    /\ (\E i \in DOMAIN ev : ev[i].ev = "push_chain") => last.pol = "PUSH"
    /\ (/\ last.pol = "SWAP"
        /\ last.ret = "True"
        /\ to \in cells
        /\ pushable(getitem(pre.board, to))) =>
         /\ getitem(board, to) = last.obj
         /\ getitem(board, from) = getitem(pre.board, to)
         /\ \A q \in cells \ {from, to} :
              getitem(board, q) = getitem(pre.board, q)
    /\ (last.pol = "PUSH" /\ last.ret = "True") =>
         \A q \in cells :
           displaced(getitem(board, q)) =>
             \/ getitem(pre.board, q) = last.obj
             \/ displaced(getitem(pre.board, q))
             \/ isEmpty(getitem(pre.board, q))
             \/ replaceable(getitem(pre.board, q))

\* What a finished get_line call has collected, as a walk from start_pos
\* towards end_pos.
GetLineResult ==
  returned.pc = "done" =>
    LET cs == returned.cells
        objs == returned.objects
        n == Len(returned.cells)
        x1 == X(returned.start_pos)
        y1 == Y(returned.start_pos)
        dx == Abs(X(returned.end_pos) - x1)
        dy == Abs(Y(returned.end_pos) - y1)
        sx == IF x1 < X(returned.end_pos) THEN 1 ELSE -1
        sy == IF y1 < Y(returned.end_pos) THEN 1 ELSE -1
        blocks(o) == Kind(o) \in returned.block_types
    IN
    /\ board = pre.board
    /\ Len(objs) = n
    /\ \A i \in 1..n : in_bounds(board, cs[i]) /\ objs[i] = getitem(board, cs[i])
    /\ \A i \in 1..n : \A j \in 1..n : cs[i] = cs[j] => i = j
    /\ n = 0 <=> ~in_bounds(board, returned.start_pos)
    /\ n > 0 => cs[1] = returned.start_pos
    /\ \A i \in 1..(n - 1) :
         /\ X(cs[i + 1]) - X(cs[i]) \in {0, sx}
         /\ Y(cs[i + 1]) - Y(cs[i]) \in {0, sy}
         /\ cs[i + 1] # cs[i]
    /\ \A i \in 1..n :
         2 * Abs(dy * sx * (X(cs[i]) - x1) - dx * sy * (Y(cs[i]) - y1))
           <= (IF dx > dy THEN dx ELSE dy)
    /\ \A i \in 1..(n - 1) : ~blocks(objs[i])
    /\ n > 0 =>
         \/ blocks(objs[n])
         \/ cs[n] = returned.end_pos
         \/ ~in_bounds(board, returned.end_pos)

\* C34: get_line always terminates, and what it returns is the occupants
\* along the walk from start towards end, in order and each cell once: it
\* ends with the occupant at end when nothing blocks, stops at and includes
\* the first occupant of a blocking type, stops before the first cell out of
\* bounds, and leaves the board as it was.
C34_GetLineWalks ==
  /\ [](GetLineResult /\ returned.pc # IndexError)
  /\ (returned.pc = "running") ~> (returned.pc = "done")

\* A call from (0, 0) towards (2, 0) that blocks on Wall and Box has stopped
\* at the Wall in (1, 0) with the Box behind it, returning two occupants.
C34_Witness ==
  /\ returned.pc = "done"
  /\ returned.start_pos = <<0, 0>>
  /\ returned.end_pos = <<2, 0>>
  /\ returned.block_types = {"Wall", "Box"}
  /\ Len(returned.objects) = 2
  /\ returned.objects[2] = "W1"
  /\ OnBoard(board, "B1") = {<<2, 0>>}

\* C35: every path pathfind returns is well formed.  Its first element is
\* start and its last is the goal; each step is one of the offsets the
\* diagonal flag allows; every element is inside the grid; every element
\* after start is traversable; no cell occurs twice; and total_cost is the
\* sum of the default cost_fn, 1 for each step.
C35_PathWellFormed ==
  (pf.pc = "done" /\ pf.result.found) =>
    LET path == pf.result.path IN
    /\ Len(path) >= 1
    /\ path[1] = pf.start
    /\ path[Len(path)] = pf.goal
    /\ \A i \in 2..Len(path) :
         /\ \E k \in 1..Len(directions(pf.diagonal)) :
              path[i] = Add(path[i - 1], directions(pf.diagonal)[k])
         /\ can_traverse(pf.mode, grid_getitem(board, path[i]))
    /\ \A i \in 1..Len(path) : grid_in_bounds(board, path[i])
    /\ \A i \in 1..Len(path), j \in 1..Len(path) :
         path[i] = path[j] => i = j
    /\ pf.result.total_cost = Len(path) - 1

\* C40: with diagonal=True, the default cost and the default heuristic,
\* pathfind finds a path exactly if one exists, and the path it returns has
\* the least number of steps in the eight directions.
C40_DiagonalPathIsShortest ==
  (pf.pc = "done" /\ pf.diagonal) =>
    /\ pf.result.found <=> ShortestLength >= 0
    /\ pf.result.found =>
         /\ Len(pf.result.path) - 1 = ShortestLength
         /\ pf.result.total_cost = ShortestLength

\* C36: Walls are fixed.  A call of move or move_to, under any policy and
\* on any occupant, leaves every Wall referenced by exactly the cells that
\* referenced it before the call; so after any sequence of such calls every
\* Wall is where it started.
C36_WallsFixed ==
  last.op \in {"move", "move_to"} =>
    \A o \in AllObjs :
      Kind(o) = "Wall" => OnBoard(board, o) = OnBoard(pre.board, o)

\* C37: occupants are conserved.  On a board whose only replaceable
\* occupants are Empty, a call of move under Fail, Swap or Push loses no
\* occupant and adds none, and leaves each occupant referenced by as many
\* cells as before the call.
C37_OccupantsConserved ==
  (last.op = "move" /\ last.pol \in {"FAIL", "SWAP", "PUSH"}) =>
    \A o \in AllObjs :
      Cardinality(OnBoard(board, o)) = Cardinality(OnBoard(pre.board, o))

\* C38: move reports its effect.  It returns True exactly when the cells
\* that reference the mover have changed; when it returns False the board
\* is as it was before the call; and a move that can_move_to allows ends by
\* returning True or False, not by raising.
C38_MoveReportsItsEffect ==
  last.op = "move" =>
    /\ last.ret = "True" <=>
         OnBoard(board, last.obj) # OnBoard(pre.board, last.obj)
    /\ last.ret = "False" => board = pre.board
    /\ (/\ pre.owner[last.obj]
        /\ core_can_move_to(pre.board, pre.owner, last.obj,
                            Add(pre.position[last.obj], last.pos), last.pol))
         => last.ret \in {"True", "False"}

\* C39: moves of GameObjects on a Grid.  After a call of move or move_to,
\* an object with movable=False is referenced by the cells that referenced
\* it before; a call that returned True leaves the moved object referenced
\* by exactly the cell its position names, and its old cell, if it left it,
\* holding the default of the grid; and a cell that held a solid object
\* holds that object still, or the default once that object has moved away.
C39_GameObjectMoves ==
  last.op \in {"move", "move_to"} =>
    /\ \A o \in GameObjs :
         ~game_movable(o) =>
           grid_cells_of(board, o) = grid_cells_of(pre.board, o)
    /\ last.ret = "True" =>
         /\ grid_cells_of(board, last.obj) = {position[last.obj]}
         /\ pre.position[last.obj] # position[last.obj] =>
              grid_getitem(board, pre.position[last.obj]) = GridDefault
    /\ \A o \in GameObjs :
         game_solid(o) =>
           \A rc \in grid_cells_of(pre.board, o) :
             grid_getitem(board, rc) \in {o, GridDefault}
====
